---- MODULE Spec2Model ----
(***************************************************************************)
(* Verification model of docusaurus-plugin-git-docs-sync: the error        *)
(* taxonomy, RetryManager, CircuitBreaker, SyncQueue / DebouncedSyncQueue  *)
(* and the GitSyncManager operations that use them.                        *)
(*                                                                         *)
(* Node.js runs every callback to its next `await` without interruption,   *)
(* so one action of this model is one such run-to-await segment.           *)
(***************************************************************************)
EXTENDS Integers, Sequences, FiniteSets, TLC

None == "none"

(***************************************************************************)
(* errors.ts                                                               *)
(*                                                                         *)
(* An error is a record: code ("RAW" for a plain Error that is not a       *)
(* GitSyncError), isRecoverable, and marks, the set of the substrings the  *)
(* program looks for that its message contains.                            *)
(***************************************************************************)
ErrorCode ==
    { "INVALID_CONFIG", "GIT_PULL_FAILED", "GIT_PUSH_FAILED", "GIT_COMMIT_FAILED",
      "GIT_MERGE_CONFLICT", "NETWORK_ERROR", "AUTHENTICATION_FAILED",
      "REMOTE_NOT_FOUND", "PATH_NOT_FOUND", "PERMISSION_DENIED", "DISK_FULL",
      "UNKNOWN_ERROR", "CIRCUIT_BREAKER_OPEN" }

GitSyncError(code, marks, isRecoverable) ==
    [code |-> code, isRecoverable |-> isRecoverable, marks |-> marks]

\* Stands for null where the program holds an error or nothing.
NoError == [code |-> "NONE", isRecoverable |-> FALSE, marks |-> {}]

\* A plain Error: no code, no isRecoverable field (undefined is falsy).
PlainError(marks) == [code |-> "RAW", isRecoverable |-> FALSE, marks |-> marks]

\* message.includes(s): a message containing "merge conflict" contains
\* "conflict", one containing "authentication failed" contains "authentication".
includes(marks, s) ==
    \/ s \in marks
    \/ s = "conflict" /\ "merge conflict" \in marks
    \/ s = "authentication" /\ "authentication failed" \in marks

ErrorHandler_handle(error) ==
    LET m == error.marks
    IN  IF error.code # "RAW" THEN error
        ELSE IF \/ includes(m, "authentication failed")
                \/ includes(m, "invalid username or password")
                \/ /\ includes(m, "permission denied")
                   /\ (includes(m, "git") \/ includes(m, "remote"))
        THEN GitSyncError("AUTHENTICATION_FAILED", {"authentication failed", "git"}, FALSE)
        ELSE IF \/ includes(m, "could not resolve host")
                \/ includes(m, "network is unreachable")
                \/ includes(m, "connection refused")
        THEN GitSyncError("NETWORK_ERROR", {}, TRUE)
        ELSE IF includes(m, "repository not found") \/ includes(m, "does not exist")
        THEN GitSyncError("REMOTE_NOT_FOUND", {"repository not found", "remote"}, FALSE)
        ELSE IF includes(m, "merge conflict") \/ includes(m, "automatic merge failed")
        THEN GitSyncError("GIT_MERGE_CONFLICT", {"merge conflict"}, FALSE)
        ELSE IF includes(m, "enoent") \/ includes(m, "no such file")
        THEN GitSyncError("PATH_NOT_FOUND", {}, TRUE)
        ELSE IF includes(m, "eacces") \/ includes(m, "permission denied")
        THEN GitSyncError("PERMISSION_DENIED", {"permission denied"}, FALSE)
        ELSE IF includes(m, "enospc") \/ includes(m, "no space left")
        THEN GitSyncError("DISK_FULL", {}, FALSE)
        ELSE IF includes(m, "spawn eio")
        \* the new message reads "Process spawn error (EIO). ...": no "spawn eio" in it
        THEN GitSyncError("UNKNOWN_ERROR", {}, FALSE)
        \* default bucket: keeps the original message, isRecoverable defaults to true
        ELSE GitSyncError("UNKNOWN_ERROR", m, TRUE)

retryableCodes == {"NETWORK_ERROR", "GIT_PULL_FAILED", "GIT_PUSH_FAILED"}

\* A shouldRetry that looks at the recoverable flag alone.
shouldRetry_anyRecoverable(error) == error.isRecoverable

ErrorHandler_shouldRetry(error) ==
    error.isRecoverable /\ error.code \in retryableCodes

\* The errors an operation is let to throw in the specifications below.
TypedErrors ==
    { GitSyncError(c, {}, r) :
        c \in { "NETWORK_ERROR", "GIT_PULL_FAILED", "GIT_PUSH_FAILED",
                "GIT_MERGE_CONFLICT", "AUTHENTICATION_FAILED", "UNKNOWN_ERROR" },
        r \in BOOLEAN }

PlainErrors ==
    { PlainError(m) :
        m \in { {}, {"connection refused"}, {"authentication failed"},
                {"merge conflict"}, {"permission denied"},
                {"permission denied", "git"}, {"spawn eio"}, {"enoent"} } }

ThrownErrors == TypedErrors \cup PlainErrors

(***************************************************************************)
(* retry-manager.ts: RetryManager                                          *)
(***************************************************************************)
DEFAULT_maxRetries == 3
DEFAULT_initialDelay == 1000
DEFAULT_maxDelay == 30000
DEFAULT_backoffFactor == 2

DEFAULT_RETRY_OPTIONS ==
    [maxRetries |-> DEFAULT_maxRetries, initialDelay |-> DEFAULT_initialDelay,
     maxDelay |-> DEFAULT_maxDelay, backoffFactor |-> DEFAULT_backoffFactor]

\* Largest maxRetries a caller passes.
MaxRetriesBound == 3

RECURSIVE Pow(_, _)
Pow(b, n) == IF n = 0 THEN 1 ELSE b * Pow(b, n - 1)

Min(a, b) == IF a < b THEN a ELSE b

VARIABLES
    rPc,           \* "idle" | "running" | "sleeping" | "returned" | "thrown"
    rOptions,      \* `options` of the call in progress
    rAttempt,      \* the loop variable `attempt`
    rLastError,    \* the variable `lastError` (NoError for null)
    rDelay,        \* the delay of the sleep in progress
    rInvocations,  \* how many times the call in progress invoked operation()
    rOnRetry,      \* how many times it called options.onRetry
    rFailures,     \* the classified failures of the call, in order
    rThrown        \* the error the call raised (NoError while it has not)

retryVars == <<rPc, rOptions, rAttempt, rLastError, rDelay, rInvocations,
               rOnRetry, rFailures, rThrown>>

RetryIdle ==
    /\ rPc = "idle"
    /\ rOptions = DEFAULT_RETRY_OPTIONS
    /\ rAttempt = 0
    /\ rLastError = NoError
    /\ rDelay = 0
    /\ rInvocations = 0
    /\ rOnRetry = 0
    /\ rFailures = <<>>
    /\ rThrown = NoError

\* delay = Math.min(initialDelay * Math.pow(backoffFactor, attempt), maxDelay)
RetryManager_delay(options, attempt) ==
    Min(options.initialDelay * Pow(options.backoffFactor, attempt), options.maxDelay)

\* executeWithRetry is entered: options = {...this.options, ...customOptions}.
RetryManager_executeWithRetry(options) ==
    /\ rPc \in {"idle", "returned", "thrown"}
    /\ rPc' = "running"
    /\ rOptions' = options
    /\ rAttempt' = 0
    /\ rLastError' = NoError
    /\ rDelay' = 0
    /\ rInvocations' = 0
    /\ rOnRetry' = 0
    /\ rFailures' = <<>>
    /\ rThrown' = NoError

\* Does the loop go on after a failure classified as e in iteration attempt?
RetryManager_retries(e, attempt, maxRetries) ==
    ErrorHandler_shouldRetry(e) /\ attempt # maxRetries

\* One iteration of the for loop whose operation() succeeds.
RetryManager_attemptReturns ==
    /\ rPc = "running"
    /\ rAttempt <= rOptions.maxRetries
    /\ rInvocations' = rInvocations + 1
    /\ rPc' = "returned"
    /\ UNCHANGED <<rOptions, rAttempt, rLastError, rDelay, rOnRetry, rFailures, rThrown>>

\* One iteration of the for loop whose operation() throws error.
RetryManager_attemptThrows(error) ==
    /\ rPc = "running"
    /\ rAttempt <= rOptions.maxRetries
    /\ rInvocations' = rInvocations + 1
    /\ LET e == ErrorHandler_handle(error)
       IN  /\ rLastError' = e
           /\ rFailures' = Append(rFailures, e)
           /\ IF RetryManager_retries(e, rAttempt, rOptions.maxRetries)
              THEN /\ rDelay' = RetryManager_delay(rOptions, rAttempt)
                   /\ rOnRetry' = rOnRetry + 1
                   /\ rPc' = "sleeping"
                   /\ rThrown' = rThrown
              ELSE /\ rPc' = "thrown"
                   /\ rThrown' = e
                   /\ UNCHANGED <<rDelay, rOnRetry>>
    /\ UNCHANGED <<rOptions, rAttempt>>

\* await this.sleep(delay) is over: attempt++ and the loop goes round.
RetryManager_sleepDone ==
    /\ rPc = "sleeping"
    /\ rAttempt' = rAttempt + 1
    /\ rPc' = "running"
    /\ rDelay' = 0
    /\ UNCHANGED <<rOptions, rLastError, rInvocations, rOnRetry, rFailures, rThrown>>

(***************************************************************************)
(* git-sync-manager.ts: GitSyncManager.pull                                *)
(***************************************************************************)
\* new RetryManager({maxRetries: 3, initialDelay: 1000, maxDelay: 10000, ...})
Manager_maxRetries == 3
Manager_initialDelay == 1000
Manager_maxDelay == 10000

ManagerRetryOptions ==
    [DEFAULT_RETRY_OPTIONS EXCEPT !.maxRetries = Manager_maxRetries,
                                  !.initialDelay = Manager_initialDelay,
                                  !.maxDelay = Manager_maxDelay]

ConflictResolutions == {"ours", "theirs", "manual"}

\* What `git stash pop` can answer with when it fails.
PopErrors ==
    { PlainError({"no stash entries found"}), PlainError({"conflict"}), PlainError({}) }

VARIABLES
    conflictResolution, \* options.conflictResolution
    pPc,            \* where the body of pull's operation is
    pStashed,       \* the local `stashed`
    pHasLocal,      \* the local `hasLocalChanges` (false before status answers)
    pError,         \* the error the outer catch block holds
    pPullArgs,      \* the options of the `git pull` of this execution
    pStashPush,     \* stash push calls of this execution of the body
    pStashPop,      \* stash pop calls of this execution of the body
    pPullOutcome,   \* "ok" | "failed" | None: how git pull ended in this execution
    pPopOutcome     \* how the first stash pop ended: "ok" | "failed" | None

pullVars == <<conflictResolution, pPc, pStashed, pHasLocal, pError, pPullArgs,
              pStashPush, pStashPop, pPullOutcome, pPopOutcome>>

PullIdle ==
    /\ pPc = "idle"
    /\ pStashed = FALSE
    /\ pHasLocal = FALSE
    /\ pError = NoError
    /\ pPullArgs = {}
    /\ pStashPush = 0
    /\ pStashPop = 0
    /\ pPullOutcome = None
    /\ pPopOutcome = None

\* pullOptions for each conflict-resolution policy (lines 278-285).
pull_pullOptions(policy) ==
    IF policy = "theirs"
    THEN {"--rebase=false", "--strategy=recursive", "--strategy-option=theirs"}
    ELSE IF policy = "ours"
    THEN {"--rebase=true", "--strategy-option=ours"}
    ELSE {"--rebase=true"}

\* The operation passed to executeWithRetry starts: git.status() is awaited.
pull_bodyStart ==
    /\ pPc' = "status"
    /\ pStashed' = FALSE
    /\ pHasLocal' = FALSE
    /\ pError' = NoError
    /\ pPullArgs' = {}
    /\ pStashPush' = 0
    /\ pStashPop' = 0
    /\ pPullOutcome' = None
    /\ pPopOutcome' = None
    /\ UNCHANGED conflictResolution

\* The operation returns, or throws error, to executeWithRetry.
pull_bodyReturns == pPc' = "ended" /\ RetryManager_attemptReturns

pull_bodyThrows(error) == pPc' = "ended" /\ RetryManager_attemptThrows(error)

\* The error the catch block throws on (lines 330-338).
pull_catchRethrow(error) ==
    IF "merge conflict" \in error.marks
    THEN GitSyncError("GIT_MERGE_CONFLICT", {"merge conflict"}, FALSE)
    ELSE error

\* pull(): this.retryManager.executeWithRetry(async () => {...}, 'Git pull operation')
GitSyncManager_pull ==
    /\ pPc \in {"idle", "ended"}
    /\ RetryManager_executeWithRetry(ManagerRetryOptions)
    /\ pull_bodyStart

\* executeWithRetry's sleep is over and it invokes the operation again.
pull_retry ==
    /\ pPc = "ended"
    /\ RetryManager_sleepDone
    /\ pull_bodyStart

\* git.status() answers with files (hasLocalChanges), or throws.
pull_statusDone(hasLocalChanges) ==
    /\ pPc = "status"
    /\ pHasLocal' = hasLocalChanges
    /\ IF hasLocalChanges
       THEN pPc' = "stashPush" /\ pStashPush' = pStashPush + 1 /\ pPullArgs' = pPullArgs
       ELSE /\ pPc' = "pull"
            /\ pPullArgs' = pull_pullOptions(conflictResolution)
            /\ pStashPush' = pStashPush
    /\ UNCHANGED <<conflictResolution, pStashed, pError, pStashPop, pPullOutcome,
                   pPopOutcome, retryVars>>

pull_statusThrows(error) ==
    /\ pPc = "status"
    /\ pull_bodyThrows(error)
    /\ UNCHANGED <<conflictResolution, pStashed, pHasLocal, pError, pPullArgs,
                   pStashPush, pStashPop, pPullOutcome, pPopOutcome>>

\* git.stash(['push', ...]) is done: stashed = true and git pull is started.
pull_stashPushDone ==
    /\ pPc = "stashPush"
    /\ pStashed' = TRUE
    /\ pPc' = "pull"
    /\ pPullArgs' = pull_pullOptions(conflictResolution)
    /\ UNCHANGED <<conflictResolution, pHasLocal, pError, pStashPush, pStashPop,
                   pPullOutcome, pPopOutcome, retryVars>>

\* git.stash(['push', ...]) throws: outside the try block, the body throws.
pull_stashPushThrows(error) ==
    /\ pPc = "stashPush"
    /\ pull_bodyThrows(error)
    /\ UNCHANGED <<conflictResolution, pStashed, pHasLocal, pError, pPullArgs,
                   pStashPush, pStashPop, pPullOutcome, pPopOutcome>>

\* git.raw(['pull', ...]) succeeds: pop the stash if one was made (lines 289-295).
pull_pullDone ==
    /\ pPc = "pull"
    /\ pPullOutcome' = "ok"
    /\ IF pStashed
       THEN /\ pPc' = "pop"
            /\ pStashPop' = pStashPop + 1
            /\ UNCHANGED retryVars
       ELSE /\ pull_bodyReturns
            /\ pStashPop' = pStashPop
    /\ UNCHANGED <<conflictResolution, pStashed, pHasLocal, pError, pPullArgs,
                   pStashPush, pPopOutcome>>

\* The catch block of lines 317-339 is entered with error.
pull_catch(error) ==
    /\ pError' = error
    /\ IF pStashed
       THEN /\ pPc' = "catchPop"
            /\ pStashPop' = pStashPop + 1
            /\ UNCHANGED retryVars
       ELSE /\ pull_bodyThrows(pull_catchRethrow(error))
            /\ pStashPop' = pStashPop

\* git.raw(['pull', ...]) throws.
pull_pullThrows(error) ==
    /\ pPc = "pull"
    /\ pPullOutcome' = "failed"
    /\ pull_catch(error)
    /\ UNCHANGED <<conflictResolution, pStashed, pHasLocal, pPullArgs, pStashPush,
                   pPopOutcome>>

\* git.stash(['pop']) of line 295 succeeds.
pull_popDone ==
    /\ pPc = "pop"
    /\ pPopOutcome' = "ok"
    /\ pull_bodyReturns
    /\ UNCHANGED <<conflictResolution, pStashed, pHasLocal, pError, pPullArgs,
                   pStashPush, pStashPop, pPullOutcome>>

\* git.stash(['pop']) of line 295 throws (lines 296-315).  What it throws on is
\* thrown inside the outer try block, so the outer catch block takes it.
pull_popThrows(error) ==
    /\ pPc = "pop"
    /\ pPopOutcome' = "failed"
    /\ IF "no stash entries found" \in error.marks
       THEN /\ pull_bodyReturns
            /\ UNCHANGED <<pError, pStashPop>>
       ELSE IF includes(error.marks, "conflict")
       THEN pull_catch(GitSyncError("GIT_MERGE_CONFLICT", {"conflict"}, FALSE))
       ELSE pull_catch(error)
    /\ UNCHANGED <<conflictResolution, pStashed, pHasLocal, pPullArgs, pStashPush,
                   pPullOutcome>>

\* git.stash(['pop']) of line 321 is over; whether it threw is only logged.
pull_catchPopDone ==
    /\ pPc = "catchPop"
    /\ pull_bodyThrows(pull_catchRethrow(pError))
    /\ UNCHANGED <<conflictResolution, pStashed, pHasLocal, pError, pPullArgs,
                   pStashPush, pStashPop, pPullOutcome, pPopOutcome>>

(***************************************************************************)
(* retry-manager.ts: CircuitBreaker                                        *)
(*                                                                         *)
(* Date.now() is the variable now, in milliseconds; the clock moves in     *)
(* steps of TickMs.                                                        *)
(***************************************************************************)
failureThreshold == 5
resetTimeout == 60000

\* One step of the clock, and how many steps it takes.
TickMs == 30000
MaxTicks == 5

\* lastFailureTime = null
NoTime == -1

\* The callers of CircuitBreaker.execute: the sync operation in flight in
\* each of the two queues GitSyncManager owns (syncQueue, debouncedQueue).
Callers == {"syncQueue", "debouncedQueue"}

VARIABLES
    now,             \* Date.now()
    circuitBreaker,  \* [state, failureCount, lastFailureTime]
    cPc,             \* per caller: "idle" | "running" | "returned" | "threw" | "rejected"
    cCall,           \* per caller: what held when its last execute call was made
    gConsecutive,    \* failed execute calls completed since the last success
    gLastFailure     \* when the last operation failure completed (NoTime: never)

callerVars == <<cPc, cCall, gConsecutive, gLastFailure>>

NoCall == [state |-> "NONE", tripped |-> FALSE, coolingDown |-> FALSE,
           probeInFlight |-> FALSE, invoked |-> FALSE]

\* new CircuitBreaker(): CLOSED, no failure counted.
CircuitBreaker_new ==
    [state |-> "CLOSED", failureCount |-> 0, lastFailureTime |-> NoTime]

BreakerIdle == circuitBreaker = CircuitBreaker_new

CallersIdle ==
    /\ cPc = [c \in Callers |-> "idle"]
    /\ cCall = [c \in Callers |-> NoCall]
    /\ gConsecutive = 0
    /\ gLastFailure = NoTime

\* The clock moves on.
Tick ==
    /\ now < MaxTicks * TickMs
    /\ now' = now + TickMs

CircuitBreaker_shouldAttemptReset(cb, t) ==
    cb.lastFailureTime # NoTime /\ t - cb.lastFailureTime >= resetTimeout

\* execute throws CIRCUIT_BREAKER_OPEN without calling operation (lines 175-186).
CircuitBreaker_rejects(cb, t) ==
    cb.state = "OPEN" /\ ~CircuitBreaker_shouldAttemptReset(cb, t)

\* The breaker as execute leaves it before it calls operation (lines 175-177).
CircuitBreaker_admit(cb) ==
    IF cb.state = "OPEN" THEN [cb EXCEPT !.state = "HALF_OPEN"] ELSE cb

CircuitOpenError == GitSyncError("CIRCUIT_BREAKER_OPEN", {}, FALSE)

\* An onSuccess that closes the breaker and keeps the count.
onSuccess_keepsCount(cb) == [cb EXCEPT !.state = "CLOSED"]

CircuitBreaker_onSuccess(cb) ==
    [cb EXCEPT !.failureCount = 0, !.state = "CLOSED"]

\* An onFailure that trips the breaker one failure late.
onFailure_tripsLate(cb, t) ==
    [cb EXCEPT !.failureCount = @ + 1,
               !.lastFailureTime = t,
               !.state = IF cb.failureCount + 1 > failureThreshold THEN "OPEN" ELSE @]

CircuitBreaker_onFailure(cb, t) ==
    [cb EXCEPT !.failureCount = @ + 1,
               !.lastFailureTime = t,
               !.state = IF cb.failureCount + 1 >= failureThreshold THEN "OPEN" ELSE @]

\* What a caller's execute call finds, kept for the properties below.
\* tripped: failureThreshold or more failures in a row precede the call;
\* coolingDown: less than resetTimeout has passed since the last failure;
\* probeInFlight: the operation of another caller's call that found the
\* breaker OPEN and was let through is still running.
CallSnapshot(c, invoked) ==
    [state |-> circuitBreaker.state,
     tripped |-> gConsecutive >= failureThreshold,
     coolingDown |-> gLastFailure # NoTime /\ now - gLastFailure < resetTimeout,
     probeInFlight |-> \E d \in Callers \ {c} :
                          cPc[d] = "running" /\ cCall[d].state = "OPEN",
     invoked |-> invoked]

\* Caller c calls execute(operation): rejected at once, or operation() is invoked.
CircuitBreaker_execute(c) ==
    /\ cPc[c] # "running"
    /\ IF CircuitBreaker_rejects(circuitBreaker, now)
       THEN /\ cPc' = [cPc EXCEPT ![c] = "rejected"]
            /\ cCall' = [cCall EXCEPT ![c] = CallSnapshot(c, FALSE)]
            /\ UNCHANGED circuitBreaker
       ELSE /\ circuitBreaker' = CircuitBreaker_admit(circuitBreaker)
            /\ cPc' = [cPc EXCEPT ![c] = "running"]
            /\ cCall' = [cCall EXCEPT ![c] = CallSnapshot(c, TRUE)]
    /\ UNCHANGED <<now, gConsecutive, gLastFailure>>

\* Caller c's operation() resolves: onSuccess, then the result is returned.
CircuitBreaker_operationReturns(c) ==
    /\ cPc[c] = "running"
    /\ circuitBreaker' = CircuitBreaker_onSuccess(circuitBreaker)
    /\ cPc' = [cPc EXCEPT ![c] = "returned"]
    /\ gConsecutive' = 0
    /\ UNCHANGED <<now, cCall, gLastFailure>>

\* Caller c's operation() rejects: onFailure, then the error is thrown on.
CircuitBreaker_operationThrows(c) ==
    /\ cPc[c] = "running"
    /\ circuitBreaker' = CircuitBreaker_onFailure(circuitBreaker, now)
    /\ cPc' = [cPc EXCEPT ![c] = "threw"]
    /\ gConsecutive' = gConsecutive + 1
    /\ gLastFailure' = now
    /\ UNCHANGED <<now, cCall>>

(***************************************************************************)
(* sync-queue.ts: SyncQueue                                                *)
(*                                                                         *)
(* Every enqueue call gets the next number (nextUid); the operation it     *)
(* passes is known by that number.  An id is a record: the id a caller     *)
(* gives, or `op-${Date.now()}-${Math.random()}`, unique to the call.      *)
(***************************************************************************)
SyncQueue_maxRetries == 3

\* How many enqueue / enqueueDebounced calls a behaviour makes, and the
\* priorities they choose among (0..MaxPriority).
MaxCalls == 3
MaxPriority == 1

\* The two queues a GitSyncManager constructs (lines 59-60); a SyncQueue used
\* on its own is the first.
Queues == {"syncQueue", "debouncedQueue"}

Uids == 1..MaxCalls
Priorities == 0..MaxPriority

GivenId(name) == [kind |-> "given", n |-> name]
GeneratedId(u) == [kind |-> "op", n |-> u]
NoId == [kind |-> "none", n |-> 0]
GivenIds == {GivenId(1)}

NoItem == [id |-> NoId, op |-> 0, priority |-> 0, retries |-> 0, kind |-> "none"]

NoPromise ==
    [q |-> "none", id |-> NoId, state |-> "unused", by |-> 0,
     given |-> FALSE, dupWaiting |-> FALSE, queueKept |-> FALSE, priorTerminal |-> FALSE]

VARIABLES
    queue,        \* per queue: this.queue
    processing,   \* per queue: this.processing
    current,      \* per queue: the item process() has shifted and is awaiting
    qPc,          \* per queue: process() is "idle" | "awaitOp" | "sleep"
    calls,        \* per call: the promise enqueue returned and its listeners' id
    nextUid,      \* the number the next call gets
    execCount,    \* per operation: how many times item.operation() was invoked
    terminated    \* the operations that succeeded or terminally failed

queueVars == <<queue, processing, current, qPc, calls, nextUid, execCount, terminated>>

QueuesIdle ==
    /\ queue = [q \in Queues |-> <<>>]
    /\ processing = [q \in Queues |-> FALSE]
    /\ current = [q \in Queues |-> NoItem]
    /\ qPc = [q \in Queues |-> "idle"]
    /\ calls = [u \in Uids |-> NoPromise]
    /\ nextUid = 1
    /\ execCount = [u \in Uids |-> 0]
    /\ terminated = {}

\* A duplicate check that overlooks the head of the queue.
hasId_skipsHead(items, id) == \E i \in 2..Len(items) : items[i].id = id

\* this.queue.some(item => item.id === id)
SyncQueue_hasId(items, id) == \E i \in 1..Len(items) : items[i].id = id

\* this.queue.findIndex(item => item.priority < priority): 0 stands for -1
SyncQueue_insertIndex(items, priority) ==
    IF \E i \in 1..Len(items) : items[i].priority < priority
    THEN CHOOSE i \in 1..Len(items) :
            /\ items[i].priority < priority
            /\ \A j \in 1..(i - 1) : ~(items[j].priority < priority)
    ELSE 0

\* push, or splice(insertIndex, 0, item)
SyncQueue_insert(items, item) ==
    LET i == SyncQueue_insertIndex(items, item.priority)
    IN  IF i = 0 THEN Append(items, item)
        ELSE SubSeq(items, 1, i - 1) \o <<item>> \o SubSeq(items, i, Len(items))

\* A re-queue that loses the item.
requeue_dropsItem(items, item) == items

\* The item with its retry counter incremented goes back to the front (unshift).
SyncQueue_requeue(items, item) == <<item>> \o items

\* One turn of process()'s while loop over items: the head is shifted and its
\* operation invoked, or the loop ends and processing is false again.
SyncQueue_loop(q, items) ==
    IF items = <<>>
    THEN /\ queue' = [queue EXCEPT ![q] = <<>>]
         /\ processing' = [processing EXCEPT ![q] = FALSE]
         /\ current' = [current EXCEPT ![q] = NoItem]
         /\ qPc' = [qPc EXCEPT ![q] = "idle"]
         /\ UNCHANGED execCount
    ELSE /\ queue' = [queue EXCEPT ![q] = Tail(items)]
         /\ processing' = [processing EXCEPT ![q] = TRUE]
         /\ current' = [current EXCEPT ![q] = Head(items)]
         /\ qPc' = [qPc EXCEPT ![q] = "awaitOp"]
         /\ execCount' = [execCount EXCEPT ![Head(items).op] = @ + 1]

\* emit('operation-complete' | 'operation-failed', {id, ...}): every listener
\* registered by enqueue on this queue whose item.id equals id settles its
\* promise and removes itself (lines 60-79).
SyncQueue_emit(cs, q, id, op, how) ==
    [u \in Uids |->
        IF cs[u].q = q /\ cs[u].state = "pending" /\ cs[u].id = id
        THEN [cs[u] EXCEPT !.state = how, !.by = op]
        ELSE cs[u]]

\* enqueue(operation, priority, id) as call number u on queue q (lines 25-80).
SyncQueue_enqueue(q, u, priority, id, kind) ==
    LET given == id # NoId
        item == [id |-> IF given THEN id ELSE GeneratedId(u), op |-> u,
                 priority |-> priority, retries |-> 0, kind |-> kind]
        dup == given /\ SyncQueue_hasId(queue[q], id)
        \* what the call met, noted for the properties below
        noted == [q |-> q, id |-> item.id, state |-> "pending", by |-> 0,
                  given |-> given,
                  dupWaiting |-> \E w \in Uids :
                                    /\ calls[w].q = q /\ calls[w].id = item.id
                                    /\ \E i \in 1..Len(queue[q]) : queue[q][i].op = w,
                  queueKept |-> FALSE,
                  priorTerminal |-> \E v \in terminated : calls[v].id = item.id /\ calls[v].q = q]
    IN  IF dup
        THEN /\ UNCHANGED <<queue, processing, current, qPc, execCount, terminated>>
             /\ calls' = [calls EXCEPT ![u] =
                            [noted EXCEPT !.state = "duplicate", !.queueKept = TRUE]]
        ELSE /\ IF processing[q]
                THEN /\ queue' = [queue EXCEPT ![q] = SyncQueue_insert(queue[q], item)]
                     /\ UNCHANGED <<processing, current, qPc, execCount>>
                ELSE SyncQueue_loop(q, SyncQueue_insert(queue[q], item))
             /\ calls' = [calls EXCEPT ![u] = noted]
             /\ UNCHANGED terminated

\* error.message.toLowerCase().includes('spawn eio') (lines 108-109)
SyncQueue_isSpawnError(error) == includes(error.marks, "spawn eio")

\* `await item.operation()` of queue q is over: error is what it threw, NoError
\* when it returned (lines 99-146, then the while loop goes round).
SyncQueue_operationDone(q, error) ==
    LET item == current[q]
    IN  /\ qPc[q] = "awaitOp"
        /\ IF error = NoError
           THEN /\ calls' = SyncQueue_emit(calls, q, item.id, item.op, "resolved")
                /\ terminated' = terminated \cup {item.op}
                /\ SyncQueue_loop(q, queue[q])
           ELSE IF SyncQueue_isSpawnError(error)
           THEN /\ calls' = SyncQueue_emit(calls, q, item.id, item.op, "rejected")
                /\ terminated' = terminated \cup {item.op}
                /\ SyncQueue_loop(q, <<>>)
           ELSE IF item.retries + 1 < SyncQueue_maxRetries
           THEN /\ queue' = [queue EXCEPT ![q] =
                                SyncQueue_requeue(queue[q], [item EXCEPT !.retries = @ + 1])]
                /\ current' = [current EXCEPT ![q] = NoItem]
                /\ qPc' = [qPc EXCEPT ![q] = "sleep"]
                /\ UNCHANGED <<processing, calls, execCount, terminated>>
           ELSE /\ calls' = SyncQueue_emit(calls, q, item.id, item.op, "rejected")
                /\ terminated' = terminated \cup {item.op}
                /\ SyncQueue_loop(q, queue[q])
        /\ UNCHANGED nextUid

\* A back-off sleep after which process() returns instead of going round.
sleepDone_endsLoop(q) ==
    /\ qPc[q] = "sleep"
    /\ qPc' = [qPc EXCEPT ![q] = "idle"]
    /\ processing' = [processing EXCEPT ![q] = FALSE]
    /\ UNCHANGED <<queue, current, execCount, calls, nextUid, terminated>>

\* The back-off sleep of line 137 is over and the while loop goes round.
SyncQueue_sleepDone(q) ==
    /\ qPc[q] = "sleep"
    /\ SyncQueue_loop(q, queue[q])
    /\ UNCHANGED <<calls, nextUid, terminated>>

\* clear()
SyncQueue_clear(q) ==
    /\ queue' = [queue EXCEPT ![q] = <<>>]
    /\ UNCHANGED <<processing, current, qPc, calls, nextUid, execCount, terminated>>

\* remove(id): the first queued item with that id is spliced out.
SyncQueue_remove(q, id) ==
    /\ IF SyncQueue_hasId(queue[q], id)
       THEN LET i == CHOOSE i \in 1..Len(queue[q]) :
                        /\ queue[q][i].id = id
                        /\ \A j \in 1..(i - 1) : queue[q][j].id # id
            IN  queue' = [queue EXCEPT ![q] =
                             SubSeq(@, 1, i - 1) \o SubSeq(@, i + 1, Len(@))]
       ELSE UNCHANGED queue
    /\ UNCHANGED <<processing, current, qPc, calls, nextUid, execCount, terminated>>

\* A caller calls enqueue on a SyncQueue of its own, with an operation of its own.
Caller_enqueue(q, priority, id) ==
    /\ nextUid <= MaxCalls
    /\ SyncQueue_enqueue(q, nextUid, priority, id, "plain")
    /\ nextUid' = nextUid + 1

(***************************************************************************)
(* sync-queue.ts: DebouncedSyncQueue                                       *)
(***************************************************************************)
DebouncedId == [kind |-> "debounced-sync", n |-> 0]
NoOperation == 0
NoTimer == 0

VARIABLES
    debounceTimer,     \* the call whose setTimeout is armed, NoTimer when none is
    pendingOperation   \* this.pendingOperation: an operation (by call number)

debounceVars == <<debounceTimer, pendingOperation>>

DebounceIdle == debounceTimer = NoTimer /\ pendingOperation = NoOperation

\* enqueueDebounced(operation) as call number u (lines 207-232): the operation
\* is stored, the armed timer is cleared (the promise of the call that armed it
\* then never settles) and a new one is armed.
DebouncedSyncQueue_enqueueDebounced(u) ==
    /\ pendingOperation' = u
    /\ debounceTimer' = u
    /\ calls' = [w \in Uids |->
                    IF w = u
                    THEN [NoPromise EXCEPT !.q = "debouncedQueue", !.state = "debouncing"]
                    ELSE IF w = debounceTimer
                    THEN [calls[w] EXCEPT !.state = "superseded"]
                    ELSE calls[w]]
    /\ UNCHANGED <<queue, processing, current, qPc, execCount, terminated>>

\* The finally block of the timer callback (line 226), run as soon as the
\* promise of the inner enqueue has settled.
DebouncedSyncQueue_finally(settled) ==
    pendingOperation' = IF settled THEN NoOperation ELSE pendingOperation

\* The timer armed by call t fires (lines 217-229).  pendingOperation is then t
\* or undefined: every enqueueDebounced stores its operation and re-arms the
\* timer in one go, and only the finally block clears it.
DebouncedSyncQueue_timerFires(kind) ==
    LET t == debounceTimer
    IN  /\ t # NoTimer
        /\ debounceTimer' = NoTimer
        /\ IF pendingOperation # NoOperation
           THEN /\ SyncQueue_enqueue("debouncedQueue", pendingOperation, 0, DebouncedId, kind)
                /\ DebouncedSyncQueue_finally(calls'[t].state = "duplicate")
           ELSE /\ calls' = [calls EXCEPT ![t].state = "dropped"]
                /\ UNCHANGED <<queue, processing, current, qPc, execCount, terminated,
                               pendingOperation>>
        /\ UNCHANGED nextUid

\* An operation of the debounced queue is over; the timer callbacks awaiting
\* the outcome settle their promises and run their finally blocks.
DebouncedSyncQueue_operationDone(error) ==
    /\ SyncQueue_operationDone("debouncedQueue", error)
    /\ DebouncedSyncQueue_finally(calls' # calls)
    /\ UNCHANGED debounceTimer

\* A caller calls enqueueDebounced with an operation of its own.
Caller_enqueueDebounced ==
    /\ nextUid <= MaxCalls
    /\ DebouncedSyncQueue_enqueueDebounced(nextUid)
    /\ nextUid' = nextUid + 1

(***************************************************************************)
(* git-sync-manager.ts: performSync and its sync operation; index.ts: the  *)
(* git-sync:pull and git-sync:push commands                                *)
(*                                                                         *)
(* The body of pull, push or syncBidirectional is one phase ("git") here;  *)
(* it ends by returning or by throwing.                                    *)
(***************************************************************************)
SyncId(t) == [kind |-> "sync", n |-> t]

\* How many performSync calls a behaviour of the manager makes, and how far its
\* clock runs.
MaxSyncs == 2
MaxManagerTicks == 2

VARIABLES
    isDisabled,     \* this.isDisabled
    isSyncing,      \* this.state.isSyncing
    lastSyncTime,   \* this.state.lastSyncTime, NoTime for null
    syncErrors,     \* this.state.syncErrors, as the codes of the errors
    opPc,           \* per queue, its sync operation in flight: "none" | "git" | "rejected"
    cliPc,          \* the manual command: "idle" | "pull" | "push"
    spawnFaults     \* the sync operations whose Git body threw a spawn EIO fault

managerVars == <<isDisabled, isSyncing, lastSyncTime, syncErrors, opPc, cliPc, spawnFaults>>

ManagerIdle ==
    /\ isDisabled = FALSE
    /\ isSyncing = FALSE
    /\ lastSyncTime = NoTime
    /\ syncErrors = <<>>
    /\ opPc = [q \in Queues |-> "none"]
    /\ cliPc = "idle"
    /\ spawnFaults = {}

\* circuitBreaker.execute has thrown CIRCUIT_BREAKER_OPEN and the catch and
\* finally blocks of the sync operation are still to run: they run before
\* any timer or I/O callback does.
Manager_settled == \A q \in Queues : opPc[q] # "rejected"

\* What the body of pull, push or syncBidirectional throws.
GitBodyErrors ==
    {GitSyncError("NETWORK_ERROR", {}, TRUE), PlainError({"spawn eio"})}

\* Lines 201-204 for the operation a step of queue q has just invoked, if it
\* invoked one: isSyncing is set and circuitBreaker.execute rejects the call or
\* calls the Git body.  cb, syncing and pc are the breaker, isSyncing and the
\* phase as the rest of the step leaves them.
Manager_syncOperationStarts(q, cb, syncing, pc) ==
    IF execCount' # execCount
    THEN /\ isSyncing' = TRUE
         /\ IF CircuitBreaker_rejects(cb, now)
            THEN /\ circuitBreaker' = cb
                 /\ opPc' = [opPc EXCEPT ![q] = "rejected"]
            ELSE /\ circuitBreaker' = CircuitBreaker_admit(cb)
                 /\ opPc' = [opPc EXCEPT ![q] = "git"]
    ELSE /\ isSyncing' = syncing
         /\ circuitBreaker' = cb
         /\ opPc' = [opPc EXCEPT ![q] = pc]

\* process() of queue q learns how its operation ended.
Manager_queueOperationDone(q, error) ==
    IF q = "debouncedQueue"
    THEN DebouncedSyncQueue_operationDone(error)
    ELSE SyncQueue_operationDone(q, error) /\ UNCHANGED debounceVars

\* performSync(priority, debounced) (lines 192-255).
GitSyncManager_performSync(priority, debounced) ==
    /\ Manager_settled
    /\ nextUid <= MaxSyncs
    /\ IF isDisabled
       THEN UNCHANGED <<queueVars, debounceVars, managerVars, circuitBreaker>>
       ELSE IF debounced
       THEN /\ Caller_enqueueDebounced
            /\ UNCHANGED <<managerVars, circuitBreaker>>
       ELSE /\ SyncQueue_enqueue("syncQueue", nextUid, priority, SyncId(now), "sync")
            /\ nextUid' = nextUid + 1
            /\ Manager_syncOperationStarts("syncQueue", circuitBreaker, isSyncing,
                                           opPc["syncQueue"])
            /\ UNCHANGED <<debounceVars, isDisabled, lastSyncTime, syncErrors, cliPc, spawnFaults>>
    /\ UNCHANGED now

\* The debounce timer fires and submits the pending sync operation.
GitSyncManager_debounceTimerFires ==
    /\ Manager_settled
    /\ DebouncedSyncQueue_timerFires("sync")
    /\ Manager_syncOperationStarts("debouncedQueue", circuitBreaker, isSyncing,
                                   opPc["debouncedQueue"])
    /\ UNCHANGED <<now, isDisabled, lastSyncTime, syncErrors, cliPc, spawnFaults>>

\* An end of the Git body that stamps lastSyncTime on failure too.
gitBodyDone_stampsFailure(q, error) ==
    LET ok == error = NoError
        gitError == ErrorHandler_handle(error)
    IN  /\ Manager_settled
        /\ opPc[q] = "git"
        /\ Manager_queueOperationDone(q, IF ok THEN NoError ELSE gitError)
        /\ lastSyncTime' = now
        /\ syncErrors' = IF ok THEN <<>> ELSE Append(syncErrors, gitError.code)
        /\ Manager_syncOperationStarts(q,
              IF ok THEN CircuitBreaker_onSuccess(circuitBreaker)
                    ELSE CircuitBreaker_onFailure(circuitBreaker, now),
              FALSE, "none")
        /\ spawnFaults' = IF ~ok /\ includes(error.marks, "spawn eio")
                           THEN spawnFaults \cup {current[q].op} ELSE spawnFaults
        /\ UNCHANGED <<now, isDisabled, cliPc>>

\* The Git body of queue q's sync operation ends, error being what it threw
\* (NoError when it returned): lines 224-245, then the queue's process().
GitSyncManager_gitBodyDone(q, error) ==
    LET ok == error = NoError
        gitError == ErrorHandler_handle(error)
    IN  /\ Manager_settled
        /\ opPc[q] = "git"
        /\ Manager_queueOperationDone(q, IF ok THEN NoError ELSE gitError)
        /\ lastSyncTime' = IF ok THEN now ELSE lastSyncTime
        /\ syncErrors' = IF ok THEN <<>> ELSE Append(syncErrors, gitError.code)
        /\ Manager_syncOperationStarts(q,
              IF ok THEN CircuitBreaker_onSuccess(circuitBreaker)
                    ELSE CircuitBreaker_onFailure(circuitBreaker, now),
              FALSE, "none")
        /\ spawnFaults' = IF ~ok /\ includes(error.marks, "spawn eio")
                           THEN spawnFaults \cup {current[q].op} ELSE spawnFaults
        /\ UNCHANGED <<now, isDisabled, cliPc>>

\* The open breaker has rejected queue q's sync operation: lines 232-245, then
\* the queue's process().
GitSyncManager_breakerRejected(q) ==
    /\ opPc[q] = "rejected"
    /\ Manager_queueOperationDone(q, ErrorHandler_handle(CircuitOpenError))
    /\ syncErrors' = Append(syncErrors, ErrorHandler_handle(CircuitOpenError).code)
    /\ Manager_syncOperationStarts(q, circuitBreaker, FALSE, "none")
    /\ UNCHANGED <<now, isDisabled, lastSyncTime, cliPc, spawnFaults>>

\* The back-off sleep of queue q is over.
GitSyncManager_backoffDone(q) ==
    /\ Manager_settled
    /\ SyncQueue_sleepDone(q)
    /\ Manager_syncOperationStarts(q, circuitBreaker, isSyncing, "none")
    /\ UNCHANGED <<now, debounceVars, isDisabled, lastSyncTime, syncErrors, cliPc, spawnFaults>>

\* disable()
GitSyncManager_disable ==
    /\ Manager_settled
    /\ ~isDisabled
    /\ isDisabled' = TRUE
    /\ UNCHANGED <<now, circuitBreaker, queueVars, debounceVars,
                   isSyncing, lastSyncTime, syncErrors, opPc, cliPc, spawnFaults>>

\* git-sync:pull or git-sync:push: initialize() is over and pull() or push()
\* is called as it is (index.ts lines 218-244).
Cli_command(cmd) ==
    /\ Manager_settled
    /\ cliPc = "idle"
    /\ cliPc' = cmd
    /\ UNCHANGED <<now, circuitBreaker, queueVars, debounceVars,
                   isDisabled, isSyncing, lastSyncTime, syncErrors, opPc, spawnFaults>>

\* pull() or push() of the command is over.
Cli_commandDone ==
    /\ Manager_settled
    /\ cliPc # "idle"
    /\ cliPc' = "idle"
    /\ UNCHANGED <<now, circuitBreaker, queueVars, debounceVars,
                   isDisabled, isSyncing, lastSyncTime, syncErrors, opPc, spawnFaults>>

Manager_tick ==
    /\ Manager_settled
    /\ now < MaxManagerTicks * TickMs
    /\ Tick
    /\ UNCHANGED <<circuitBreaker, queueVars, debounceVars, managerVars>>

(***************************************************************************)
(* webhook-server-improved.ts: WebhookServer                               *)
(*                                                                         *)
(* A request body is a record of what the handler reads from it; two       *)
(* bodies are the same text exactly when they are the same record.  A      *)
(* string the handler only compares, measures or tests for a prefix is a   *)
(* record or a name with those relations given below.                      *)
(***************************************************************************)
IngestPath == "/webhook/git-sync"
HealthPath == "/webhook/health"
StatusPath == "/webhook/status"
TestPath == "/webhook/test"

\* crypto.createHmac('sha256', secret).update(payload).digest('hex'): equal
\* digests come from equal secrets and equal payloads only.
HmacSha256Hex(secret, payload) == [alg |-> "sha256", key |-> secret, text |-> payload]

\* 'sha256=' followed by the 64 hex digits of a digest
Sha256HeaderLength == 71

\* The header value 'sha256=' + digest, with its length.
SignatureOf(secret, payload) ==
    [present |-> TRUE, len |-> Sha256HeaderLength, mac |-> HmacSha256Hex(secret, payload)]

\* What the handler reads from a body: whether JSON.parse accepts it, ref (the
\* GitHub shape), push.changes[0].new.name (the Bitbucket shape, None when the
\* body has no change) and the files of its commits.
Body(json, ref, changeName, hasCommits, files) ==
    [json |-> json, ref |-> ref, changeName |-> changeName,
     commits |-> [present |-> hasCommits, files |-> files]]

Bodies ==
    { Body(TRUE, "refs/heads/main", "main", TRUE, {"docs/a.md"}),
      Body(TRUE, "refs/heads/dev", "dev", TRUE, {"README.md"}),
      Body(FALSE, None, None, FALSE, {}) }

\* No signature header, and a header value of another length than a digest's.
NoDigest == [alg |-> "none", key |-> "", text |-> Body(FALSE, None, None, FALSE, {})]
NoSignature == [present |-> FALSE, len |-> 0, mac |-> NoDigest]
ShortSignatureLength == 10
ShortSignature == [present |-> TRUE, len |-> ShortSignatureLength, mac |-> NoDigest]

\* crypto.timingSafeEqual(Buffer.from(a), Buffer.from(b)): throws a RangeError
\* when the lengths differ.
timingSafeEqual(a, b) ==
    IF a.len # b.len THEN "throws" ELSE IF a = b THEN "equal" ELSE "differ"

\* payload.ref?.replace('refs/heads/', '')
stripHeadsPrefix(ref) ==
    CASE ref = "refs/heads/main" -> "main"
      [] ref = "refs/heads/dev" -> "dev"
      [] OTHER -> ref

\* filePath.startsWith(prefix), for the names used here
startsWith(file, prefix) ==
    \/ prefix = "docs" /\ file \in {"docs/a.md", "docs2/b.md"}
    \/ prefix = file

\* matchPath(filePath, pattern) (lines 445-462); a pattern is a tree pattern
\* 'prefix/**' or a literal path.
WebhookServer_matchPath(file, pattern) ==
    IF pattern.kind = "tree" THEN startsWith(file, pattern.prefix)
    ELSE file = pattern.path

\* parseWebhookPayload(headers, payload) (lines 327-369)
WebhookServer_parseWebhookPayload(req) ==
    IF req.githubEvent # None
    THEN [provider |-> "github", event |-> req.githubEvent,
          branch |-> stripHeadsPrefix(req.body.ref), commits |-> req.body.commits]
    ELSE IF req.eventKey # None
    THEN [provider |-> "bitbucket", event |-> req.eventKey,
          branch |-> req.body.changeName,
          \* every commit of the change with files: []
          commits |-> [present |-> req.body.changeName # None, files |-> {}]]
    ELSE [provider |-> "unknown", event |-> "unknown", branch |-> None,
          commits |-> [present |-> FALSE, files |-> {}]]

\* verifyGitHubSignature(payload, signature) (lines 394-398)
WebhookServer_verifyGitHubSignature(secret, body, signature) ==
    timingSafeEqual(signature, SignatureOf(secret, body))

\* verifySignature(headers, body, provider) (lines 371-392):
\* "equal" for true, "differ" for false, "throws" when the comparison throws.
WebhookServer_verifySignature(secret, req, provider) ==
    IF secret = "" THEN "equal"
    ELSE IF provider = "github"
    THEN IF ~req.signature.present THEN "differ"
         ELSE WebhookServer_verifyGitHubSignature(secret, req.body, req.signature)
    ELSE IF provider = "bitbucket" THEN "equal"
    ELSE "differ"

\* filterOptions: configured is false when there are none, and an empty set is
\* a filter left out.
FilterOptions(configured, branches, events, paths) ==
    [configured |-> configured, branches |-> branches, events |-> events, paths |-> paths]

\* A filter that lets every event through.
shouldProcess_everything(filters, payload) == TRUE

\* shouldProcessWebhook(payload) (lines 400-443)
WebhookServer_shouldProcessWebhook(filters, payload) ==
    IF ~filters.configured THEN TRUE
    ELSE IF filters.branches # {} /\ payload.branch # None
            /\ payload.branch \notin filters.branches
    THEN FALSE
    ELSE IF filters.events # {} /\ payload.event \notin filters.events
    THEN FALSE
    ELSE IF filters.paths # {} /\ payload.commits.present
            /\ ~\E file \in payload.commits.files, pattern \in filters.paths :
                   WebhookServer_matchPath(file, pattern)
    THEN FALSE
    ELSE TRUE

(***************************************************************************)
(* webhook-queue.ts: WebhookQueue                                          *)
(***************************************************************************)
WebhookQueue_defaultMaxRetries == 3
WebhookQueue_defaultMaxQueueSize == 100

\* The maxQueueSize and maxRetries the queue is configured with, and how many
\* requests a behaviour of the listener receives.
ConfiguredMaxQueueSize == 1
ConfiguredMaxRetries == 2
MaxRequests == 2

\* `options.maxQueueSize || 100`
WebhookQueue_maxQueueSizeOption(maxQueueSize) ==
    IF maxQueueSize = 0 THEN WebhookQueue_defaultMaxQueueSize
    ELSE maxQueueSize

\* `options.maxRetries || 3`
WebhookQueue_maxRetries ==
    IF ConfiguredMaxRetries = 0 THEN WebhookQueue_defaultMaxRetries
    ELSE ConfiguredMaxRetries

\* cleanup keeps what is younger than this (60 * 60 * 1000 ms).
OneHourMs == 3600000

VARIABLES
    wq,              \* this.queue: the QueuedWebhook records
    wProcessing,     \* this.processing
    wTimer,          \* this.timer is set (the interval is armed)
    wNextId,         \* stands for generateId(): the next id
    processorCalls,  \* how many times the processor has been invoked
    wMaxQueueSize    \* this.maxQueueSize, set by the constructor

webhookQueueVars == <<wq, wProcessing, wTimer, wNextId, processorCalls, wMaxQueueSize>>

\* this.maxQueueSize
WebhookQueue_maxQueueSize == wMaxQueueSize

\* The queue as its constructor leaves it, for the given maxQueueSize option.
WebhookQueue_new(maxQueueSize) ==
    /\ wq = <<>>
    /\ wProcessing = FALSE
    /\ wTimer = FALSE
    /\ wNextId = 1
    /\ processorCalls = 0
    /\ wMaxQueueSize = WebhookQueue_maxQueueSizeOption(maxQueueSize)

WebhookQueueIdle ==
    /\ wMaxQueueSize = WebhookQueue_maxQueueSizeOption(ConfiguredMaxQueueSize)
    /\ wq = <<>>
    /\ wProcessing = FALSE
    /\ wTimer = FALSE
    /\ wNextId = 1
    /\ processorCalls = 0

QueuedWebhook(id, t) ==
    [id |-> id, timestamp |-> t, retries |-> 0, status |-> "pending", error |-> FALSE]

\* this.queue.find(w => w.status === 'pending'): its index, 0 when there is none
WebhookQueue_firstPending(items) ==
    IF \E i \in 1..Len(items) : items[i].status = "pending"
    THEN CHOOSE i \in 1..Len(items) :
            /\ items[i].status = "pending"
            /\ \A j \in 1..(i - 1) : items[j].status # "pending"
    ELSE 0

\* A processNext that stops the loop as soon as nothing is pending, even with
\* a processor call still running.
processNext_stopsWhileProcessing(items) ==
    LET i == WebhookQueue_firstPending(items)
    IN  IF i = 0
        THEN /\ wq' = items
             /\ processorCalls' = processorCalls
             /\ wTimer' = FALSE /\ wProcessing' = FALSE
             /\ UNCHANGED wMaxQueueSize
        ELSE /\ wq' = [items EXCEPT ![i].status = "processing"]
             /\ processorCalls' = processorCalls + 1
             /\ wTimer' = TRUE /\ wProcessing' = TRUE
             /\ UNCHANGED wMaxQueueSize

\* processNext() up to its await (lines 132-146) on the queue items: the first
\* pending webhook is marked processing and the processor is invoked for it, or
\* stop() is called when nothing is pending or processing.  It is called with
\* the interval armed and processing true: by the interval itself, or by
\* startProcessing, which has just set both.
WebhookQueue_processNext(items) ==
    LET i == WebhookQueue_firstPending(items)
    IN  IF i = 0
        THEN /\ wq' = items
             /\ processorCalls' = processorCalls
             /\ UNCHANGED wMaxQueueSize
             /\ IF \E j \in 1..Len(items) : items[j].status = "processing"
                THEN wTimer' = TRUE /\ wProcessing' = TRUE
                ELSE wTimer' = FALSE /\ wProcessing' = FALSE
        ELSE /\ wq' = [items EXCEPT ![i].status = "processing"]
             /\ processorCalls' = processorCalls + 1
             /\ wTimer' = TRUE /\ wProcessing' = TRUE
             /\ UNCHANGED wMaxQueueSize

\* enqueue(payload) (lines 36-54), then startProcessing() (lines 110-125);
\* the value returned is 0 for null.
WebhookQueue_enqueueReturns == IF Len(wq) >= WebhookQueue_maxQueueSize THEN 0 ELSE wNextId

\* An enqueue that lets one event more in than maxQueueSize.
enqueue_oneTooMany ==
    IF Len(wq) > WebhookQueue_maxQueueSize
    THEN UNCHANGED webhookQueueVars
    ELSE /\ wNextId' = wNextId + 1
         /\ IF wProcessing
            THEN /\ wq' = Append(wq, QueuedWebhook(wNextId, now))
                 /\ UNCHANGED <<wProcessing, wTimer, processorCalls, wMaxQueueSize>>
            ELSE WebhookQueue_processNext(Append(wq, QueuedWebhook(wNextId, now)))

WebhookQueue_enqueue ==
    IF Len(wq) >= WebhookQueue_maxQueueSize
    THEN UNCHANGED webhookQueueVars
    ELSE /\ wNextId' = wNextId + 1
         /\ IF wProcessing
            THEN /\ wq' = Append(wq, QueuedWebhook(wNextId, now))
                 /\ UNCHANGED <<wProcessing, wTimer, processorCalls, wMaxQueueSize>>
            ELSE WebhookQueue_processNext(Append(wq, QueuedWebhook(wNextId, now)))

\* The interval of startProcessing fires: processNext().
WebhookQueue_intervalFires ==
    /\ wTimer
    /\ WebhookQueue_processNext(wq)
    /\ UNCHANGED wNextId

\* A cleanup that goes by age alone.
cleanup_ignoresStatus(items) ==
    SelectSeq(items, LAMBDA w : w.timestamp > now - OneHourMs)

\* cleanup() (lines 84-96)
WebhookQueue_cleanup(items) ==
    SelectSeq(items, LAMBDA w :
        \/ w.status \in {"pending", "processing"}
        \/ w.timestamp > now - OneHourMs)

\* A webhook whose processor call failed, retries counted.
afterFailure_notCounted(w) ==
    [w EXCEPT !.error = TRUE, !.status = "pending"]

\* A catch block that allows one call more than maxRetries.
afterFailure_oneMore(w) ==
    [w EXCEPT !.retries = @ + 1,
              !.error = TRUE,
              !.status = IF w.retries + 1 <= WebhookQueue_maxRetries
                         THEN "pending" ELSE "failed"]

\* The catch block of processNext (lines 158-169)
WebhookQueue_afterFailure(w) ==
    [w EXCEPT !.retries = @ + 1,
              !.error = TRUE,
              !.status = IF w.retries + 1 < WebhookQueue_maxRetries
                         THEN "pending" ELSE "failed"]

\* The processor call for the webhook at index i is over (lines 148-169);
\* cleans says whether Math.random() < 0.1 came out true.
WebhookQueue_processorDone(i, ok, cleans) ==
    /\ i \in 1..Len(wq)
    /\ wq[i].status = "processing"
    /\ LET done == [wq EXCEPT ![i] =
                      IF ok THEN [@ EXCEPT !.status = "completed"]
                      ELSE WebhookQueue_afterFailure(@)]
       IN  wq' = IF ok /\ cleans THEN WebhookQueue_cleanup(done) ELSE done
    /\ (cleans => ok)
    /\ UNCHANGED <<wProcessing, wTimer, wNextId, processorCalls, wMaxQueueSize>>

\* stop() (lines 101-107), called from outside
WebhookQueue_stop ==
    /\ wTimer' = FALSE
    /\ wProcessing' = FALSE
    /\ UNCHANGED <<wq, wNextId, processorCalls, wMaxQueueSize>>

(***************************************************************************)
(* webhook-server-improved.ts: the request handler and its state           *)
(***************************************************************************)
WebhookLogLimit == 100

\* The secret a server is configured with.
Secret == "s3cret"

Methods == {"GET", "POST", "OPTIONS"}
RequestPaths == {IngestPath, HealthPath, StatusPath, TestPath, "/webhook/other"}

\* The Authorization header of a request to the test path
Authorizations == {None, "Bearer ", "Bearer s3cret", "Bearer other", "Basic s3cret"}

\* authHeader.startsWith('Bearer ') and authHeader.substring(7)
bearerToken(authorization) ==
    CASE authorization = "Bearer " -> ""
      [] authorization = "Bearer s3cret" -> "s3cret"
      [] authorization = "Bearer other" -> "other"
      [] OTHER -> None

Request(path, method, body, githubEvent, eventKey, signature, authorization) ==
    [path |-> path, method |-> method, body |-> body, githubEvent |-> githubEvent,
     eventKey |-> eventKey, signature |-> signature, authorization |-> authorization]

\* The signature headers a request to the ingest path may carry for its body.
SignaturesFor(body) ==
    { NoSignature, ShortSignature, SignatureOf(Secret, body),
      \* the digest of a body that differs from this one
      SignatureOf(Secret, [body EXCEPT !.ref = "refs/heads/tampered"]) }

\* x-github-event and x-event-key of a request
ProviderHeaders == {<<"push", None>>, <<None, "repo:push">>, <<None, None>>}

Requests ==
    UNION { { Request(IngestPath, "POST", b, h[1], h[2], s, None) :
                h \in ProviderHeaders, s \in SignaturesFor(b) } :
            b \in Bodies }
    \cup { Request(TestPath, "POST", Body(FALSE, None, None, FALSE, {}), None, None,
                   NoSignature, a) : a \in Authorizations }
    \cup { Request(p, m, Body(FALSE, None, None, FALSE, {}), None, None, NoSignature, None) :
             p \in RequestPaths, m \in Methods }

\* The options a server is constructed with.
ServerOptions ==
    [ secret : {"", Secret},
      filterOptions : { FilterOptions(FALSE, {}, {}, {}),
                        FilterOptions(TRUE, {"main"}, {}, {}),
                        FilterOptions(TRUE, {"main"}, {"push"},
                                      {[kind |-> "tree", prefix |-> "docs"]}) },
      queueEnabled : BOOLEAN ]

NoExchange ==
    [path |-> None, method |-> None, json |-> FALSE, provider |-> None,
     signature |-> None, signatureLength |-> 0, branchRefused |-> FALSE,
     status |-> 0, body |-> None, headers |-> {},
     enqueued |-> FALSE, triggered |-> FALSE]

VARIABLES
    wsOptions,      \* this.options
    webhookStats,   \* this.webhookStats
    webhookLog,     \* this.webhookLog, as the status of each entry
    wsExchange,     \* the last request answered and the answer it got
    wsRequests,     \* how many requests have arrived
    directTimers,   \* armed setTimeout callbacks of lines 219-233
    directCalls,    \* onWebhook calls of those callbacks still running
    testCalls       \* onWebhook calls of handleTest still running

serverVars == <<wsOptions, webhookStats, webhookLog, wsExchange, wsRequests,
                directTimers, directCalls, testCalls>>

ServerIdle ==
    /\ webhookStats = [total |-> 0, successful |-> 0, failed |-> 0, filtered |-> 0,
                       queued |-> 0, lastWebhook |-> NoTime]
    /\ webhookLog = <<>>
    /\ wsExchange = NoExchange
    /\ wsRequests = 0
    /\ directTimers = 0
    /\ directCalls = 0
    /\ testCalls = 0

\* logWebhook (lines 474-507)
WebhookServer_logWebhook(log, status) ==
    LET pushed == Append(log, status)
    IN  IF Len(pushed) > WebhookLogLimit THEN Tail(pushed) ELSE pushed

\* What a request's signature header is to the HMAC-SHA256 of its body under
\* the configured secret.
SignatureClass(req) ==
    IF ~req.signature.present THEN "missing"
    ELSE IF req.signature = SignatureOf(wsOptions.secret, req.body) THEN "valid"
    ELSE "wrong"

\* The request answered with status and body, the rest of the state as given.
WebhookServer_respond(req, status, body, headers, payload, enqueued, triggered) ==
    wsExchange' =
        [path |-> req.path, method |-> req.method, json |-> req.body.json,
         provider |-> payload.provider,
         signature |-> SignatureClass(req), signatureLength |-> req.signature.len,
         branchRefused |-> /\ wsOptions.filterOptions.configured
                           /\ wsOptions.filterOptions.branches # {}
                           /\ payload.branch # None
                           /\ payload.branch \notin wsOptions.filterOptions.branches,
         status |-> status, body |-> body, headers |-> headers,
         enqueued |-> enqueued, triggered |-> triggered]

NoPayload ==
    [provider |-> None, event |-> None, branch |-> None,
     commits |-> [present |-> FALSE, files |-> {}]]

\* handleWebhook once the body has arrived (lines 175-245)
WebhookServer_handleWebhook(req) ==
    LET payload == WebhookServer_parseWebhookPayload(req)
        verdict == WebhookServer_verifySignature(wsOptions.secret, req, payload.provider)
        accepted == [webhookStats EXCEPT !.total = @ + 1, !.lastWebhook = now]
    IN  IF ~req.body.json \/ verdict = "throws"
        THEN \* JSON.parse or timingSafeEqual threw: the catch of lines 238-244
             /\ WebhookServer_respond(req, 400, "Bad request", {}, NoPayload, FALSE, FALSE)
             /\ UNCHANGED <<webhookStats, webhookLog, directTimers, webhookQueueVars>>
        ELSE IF verdict = "differ"
        THEN /\ WebhookServer_respond(req, 401, "Unauthorized", {}, payload, FALSE, FALSE)
             /\ webhookLog' = WebhookServer_logWebhook(webhookLog, "failed")
             /\ UNCHANGED <<webhookStats, directTimers, webhookQueueVars>>
        ELSE IF ~WebhookServer_shouldProcessWebhook(wsOptions.filterOptions, payload)
        THEN /\ webhookStats' = [webhookStats EXCEPT !.filtered = @ + 1]
             /\ webhookLog' = WebhookServer_logWebhook(webhookLog, "filtered")
             /\ WebhookServer_respond(req, 200, "Filtered", {}, payload, FALSE, FALSE)
             /\ UNCHANGED <<directTimers, webhookQueueVars>>
        ELSE IF wsOptions.queueEnabled
        THEN /\ WebhookQueue_enqueue
             /\ IF WebhookQueue_enqueueReturns # 0
                THEN /\ webhookStats' = [accepted EXCEPT !.queued = @ + 1]
                     /\ webhookLog' =
                           WebhookServer_logWebhook(webhookLog, "queued")
                     /\ WebhookServer_respond(req, 200, "Queued", {"X-Queue-ID"}, payload,
                                              TRUE, processorCalls' # processorCalls)
                ELSE /\ webhookStats' = accepted
                     /\ UNCHANGED webhookLog
                     /\ WebhookServer_respond(req, 503,
                           "Service temporarily unavailable - queue full",
                           {"Retry-After"}, payload,
                           wq' # wq, processorCalls' # processorCalls)
             /\ UNCHANGED directTimers
        ELSE /\ webhookStats' = accepted
             /\ WebhookServer_respond(req, 200, "OK", {}, payload, FALSE, TRUE)
             /\ directTimers' = directTimers + 1
             /\ UNCHANGED <<webhookLog, webhookQueueVars>>

\* handleTest (lines 272-325) up to its await
WebhookServer_handleTest(req) ==
    IF bearerToken(req.authorization) = None
          \/ bearerToken(req.authorization) # wsOptions.secret
    THEN /\ WebhookServer_respond(req, 401, "Unauthorized", {}, NoPayload, FALSE, FALSE)
         /\ UNCHANGED <<testCalls, processorCalls>>
    ELSE /\ testCalls' = testCalls + 1
         /\ processorCalls' = processorCalls + 1
         /\ UNCHANGED wsExchange

\* A request arrives: the handler of createRequestHandler (lines 105-165).
WebhookServer_request(req) ==
    /\ wsRequests < MaxRequests
    /\ wsRequests' = wsRequests + 1
    /\ IF req.method = "OPTIONS"
       THEN /\ WebhookServer_respond(req, 200, "", {}, NoPayload, FALSE, FALSE)
            /\ UNCHANGED <<webhookStats, webhookLog, directTimers, testCalls,
                           webhookQueueVars>>
       ELSE IF req.path = IngestPath /\ req.method = "POST"
       THEN /\ WebhookServer_handleWebhook(req)
            /\ UNCHANGED testCalls
       ELSE IF req.path = TestPath /\ req.method = "POST"
       THEN /\ WebhookServer_handleTest(req)
            /\ UNCHANGED <<webhookStats, webhookLog, directTimers,
                           wq, wProcessing, wTimer, wNextId,
                   wMaxQueueSize>>
       ELSE IF req.path \in {HealthPath, StatusPath} /\ req.method = "GET"
       THEN /\ WebhookServer_respond(req, 200, "json", {"Content-Type"}, NoPayload,
                                     FALSE, FALSE)
            /\ UNCHANGED <<webhookStats, webhookLog, directTimers, testCalls,
                           webhookQueueVars>>
       ELSE IF req.path \in {IngestPath, HealthPath, StatusPath, TestPath}
       THEN /\ WebhookServer_respond(req, 405, "Method not allowed", {}, NoPayload,
                                     FALSE, FALSE)
            /\ UNCHANGED <<webhookStats, webhookLog, directTimers, testCalls,
                           webhookQueueVars>>
       ELSE /\ WebhookServer_respond(req, 404, "Not found", {}, NoPayload, FALSE, FALSE)
            /\ UNCHANGED <<webhookStats, webhookLog, directTimers, testCalls,
                           webhookQueueVars>>
    /\ UNCHANGED <<now, wsOptions, directCalls>>

\* The onWebhook call of handleTest is over (lines 309-324).
WebhookServer_testDone(ok) ==
    /\ testCalls > 0
    /\ testCalls' = testCalls - 1
    /\ wsExchange' = [NoExchange EXCEPT !.path = TestPath, !.method = "POST",
                                        !.status = IF ok THEN 200 ELSE 500,
                                        !.body = "json",
                                        !.headers = {"Content-Type"},
                                        !.triggered = TRUE]
    /\ UNCHANGED <<now, wsOptions, webhookStats, webhookLog, wsRequests, directTimers,
                   directCalls, webhookQueueVars>>

\* A timeout of lines 219-233 fires: onWebhook is called.
WebhookServer_triggerFires ==
    /\ directTimers > 0
    /\ directTimers' = directTimers - 1
    /\ directCalls' = directCalls + 1
    /\ processorCalls' = processorCalls + 1
    /\ UNCHANGED <<now, wsOptions, webhookStats, webhookLog, wsExchange, wsRequests,
                   testCalls, wq, wProcessing, wTimer, wNextId,
                   wMaxQueueSize>>

\* The onWebhook call of a timeout is over (lines 221-232).
WebhookServer_triggerDone(ok) ==
    /\ directCalls > 0
    /\ directCalls' = directCalls - 1
    /\ webhookStats' = IF ok THEN [webhookStats EXCEPT !.successful = @ + 1]
                       ELSE [webhookStats EXCEPT !.failed = @ + 1]
    /\ webhookLog' = WebhookServer_logWebhook(webhookLog,
                                              IF ok THEN "success" ELSE "failed")
    /\ UNCHANGED <<now, wsOptions, wsExchange, wsRequests, directTimers, testCalls,
                   webhookQueueVars>>

\* An hour goes by; cleanup has the one threshold, which this crosses.
WebhookHourPasses ==
    /\ now < OneHourMs
    /\ now' = now + OneHourMs
    /\ UNCHANGED <<serverVars, webhookQueueVars>>

(***************************************************************************)
(* git-sync-manager.ts: GitSyncManager.push and syncBidirectional          *)
(*                                                                         *)
(* The working copy is a record: changed is what `git status` lists,       *)
(* sentinel the files whose content holds the placeholder marker, invalid  *)
(* the files the MDX validator rejects, ahead / behind whether the local   *)
(* branch has commits the remote lacks / lacks commits the remote has, and *)
(* stashed whether an entry is left on the stash. Every file of Files is tracked   *)
(* and exists on disk. One call of a body is one action: the Git commands  *)
(* of one body run in sequence, and a command that fails is named by the   *)
(* action's fault. Files and the remote change between calls.              *)
(***************************************************************************)
File(stem, ext) == [stem |-> stem, ext |-> ext]

FileA == File("a", "md")
FileB == File("b", "mdx")
FileC == File("c", "txt")

Files == {FileA, FileB, FileC}

\* The files that may hold the placeholder marker, and those that may be
\* invalid MDX, when the process starts.
SentinelFiles == {FileA, FileC}
InvalidFiles == {FileB}

\* file.endsWith('.' + ext)
endsWith(file, ext) == file.ext = ext

\* file.endsWith('.md') || file.endsWith('.mdx')
isMarkdown(file) == endsWith(file, "md") \/ endsWith(file, "mdx")

\* The Git command of a body that fails, if one does.
Faults == {"none", "fetch", "pull", "pop", "commit", "push"}

\* validate: validateBeforeCommit, which also builds the validator.
SyncOptions ==
    { [validate |-> FALSE, skipInvalidFiles |-> FALSE],
      [validate |-> TRUE, skipInvalidFiles |-> FALSE],
      [validate |-> TRUE, skipInvalidFiles |-> TRUE] }

\* hasPlaceholderFiles(files): a Markdown file among files holds the marker.
GitSyncManager_hasPlaceholderFiles(r, files) ==
    \E f \in files : isMarkdown(f) /\ f \in r.sentinel

\* hasAnyPlaceholderFiles(): the same over status.files and `git ls-files`.
GitSyncManager_hasAnyPlaceholderFiles(r) ==
    GitSyncManager_hasPlaceholderFiles(r, r.changed \cup Files)

\* mdxValidator.validateFiles(files).errors, as the set of the files at fault.
MDXValidator_validateFiles(r, files) == files \cap r.invalid

\* git reset HEAD <file>: the index entry goes back to HEAD, the working
\* file stays as it is, so `git status` lists what it listed before.
Git_reset(r, files) == r

\* git add . ; git commit: everything `git status` listed is committed.
Git_commit(r) == [r EXCEPT !.changed = {}, !.ahead = TRUE]

\* git stash push: the changes leave the working tree.
Git_stashPush(r) == [r EXCEPT !.changed = {}]

\* git stash pop, without conflict: the changes files come back, the entry goes.
Git_stashPop(r, files) == [r EXCEPT !.changed = files]

\* git stash pop that conflicts: the changes come back, the entry is kept.
Git_stashPopConflict(r, files) == [r EXCEPT !.changed = files, !.stashed = TRUE]

\* git pull --rebase=false: the remote's commits are merged in.
Git_pull(r) == [r EXCEPT !.behind = FALSE]

\* git push accepted: the remote has every local commit.
Git_push(r) == [r EXCEPT !.ahead = FALSE]

\* What one execution of a body did.
Outcome(r, error, commits, committed, pushCalls, reported, refsDiffered,
        pullFailed, pullArgs, merged) ==
    [repo |-> r, error |-> error, commits |-> commits,
     committedReported |-> committed \cap reported # {},
     pushCalls |-> pushCalls, reported |-> reported,
     refsDiffered |-> refsDiffered, pullFailed |-> pullFailed,
     pullArgs |-> pullArgs, merged |-> merged, failed |-> pullFailed]

\* The same, one of the Git commands having failed.
Failed(x) == [x EXCEPT !.failed = TRUE]

\* git.push(...) and what follows it in push (lines 419-431).
push_pushStep(r, fault, commits, committed, reported) ==
    IF fault = "push"
    THEN Failed(Outcome(r, PlainError({"connection refused"}), commits,
                        committed, 1, reported, FALSE, FALSE, {}, FALSE))
    ELSE IF r.behind
    THEN Outcome(r, GitSyncError("GIT_PUSH_FAILED", {"non-fast-forward"}, TRUE),
                 commits, committed, 1, reported, FALSE, FALSE, {}, FALSE)
    ELSE Outcome(Git_push(r), NoError, commits, committed, 1, reported,
                 FALSE, FALSE, {}, FALSE)

\* The operation push hands to executeWithRetry (lines 351-432), run once.
push_body(r, o, fault) ==
    LET status == r.changed
        filesToValidate == {f \in status : isMarkdown(f)}
        errors == IF o.validate /\ filesToValidate # {}
                  THEN MDXValidator_validateFiles(r, filesToValidate) ELSE {}
        newStatus == Git_reset(r, errors).changed
        quiet(error) == Outcome(r, error, 0, {}, 0, errors, FALSE, FALSE, {},
                                FALSE)
    IN  IF status = {} THEN push_pushStep(r, fault, 0, {}, errors)
        ELSE IF errors # {} /\ ~o.skipInvalidFiles
        THEN quiet(GitSyncError("GIT_COMMIT_FAILED", {}, FALSE))
        ELSE IF errors # {} /\ newStatus = {} THEN quiet(NoError)
        ELSE IF GitSyncManager_hasPlaceholderFiles(r, status) THEN quiet(NoError)
        ELSE IF fault = "commit"
        THEN Failed(quiet(GitSyncError("GIT_COMMIT_FAILED", {}, FALSE)))
        ELSE push_pushStep(Git_commit(r), fault, 1, status, errors)

\* `--rebase=false` and, unless the policy is manual, the merge strategy
\* (lines 478-489).
syncBidirectional_pullOptions(policy) ==
    IF policy # "manual"
    THEN {"--rebase=false", "--strategy=recursive", "--strategy-option=" \o policy}
    ELSE {"--rebase=false"}

\* statusAfterPull.files.length > 0
syncBidirectional_hasLocalChanges(files) == files # {}

\* The body of syncBidirectional (lines 442-641), run once. What
\* stateManager.hasPlaceholders() and hasAnyPlaceholderFiles() answer in step 1
\* goes to a console warning and nowhere else.
syncBidirectional_body(r, o, policy, fault) ==
    LET stashed == r.changed # {}
        r1 == IF stashed THEN Git_stashPush(r) ELSE r
        refsDiffer == r1.ahead \/ r1.behind
        pullFailed == refsDiffer /\ fault = "pull"
        merged == refsDiffer /\ ~pullFailed /\ r1.ahead /\ r1.behind
        r2 == IF refsDiffer /\ ~pullFailed THEN Git_pull(r1) ELSE r1
        pullArgs == IF refsDiffer THEN syncBidirectional_pullOptions(policy) ELSE {}
        popConflicts == stashed /\ fault = "pop" /\ r1.behind /\ ~r2.behind
        r3 == IF ~stashed THEN r2
              ELSE IF popConflicts THEN Git_stashPopConflict(r2, r.changed)
              ELSE Git_stashPop(r2, r.changed)
        statusAfterPull == r3.changed
        filesToValidate == {f \in statusAfterPull : isMarkdown(f)}
        errors == IF /\ syncBidirectional_hasLocalChanges(statusAfterPull)
                     /\ o.validate /\ filesToValidate # {}
                  THEN MDXValidator_validateFiles(r3, filesToValidate) ELSE {}
        newStatus == Git_reset(r3, errors).changed
        toCommit == IF errors # {} THEN newStatus ELSE statusAfterPull
        end(rr, error, commits, committed, pushCalls) ==
            Outcome(rr, error, commits, committed, pushCalls, errors, refsDiffer,
                    pullFailed, pullArgs, merged)
    IN  IF fault = "fetch"
        THEN Failed(Outcome(r, PlainError({"could not resolve host"}), 0, {}, 0,
                            {}, FALSE, FALSE, {}, FALSE))
        ELSE IF popConflicts
        THEN Failed(end(r3, GitSyncError("GIT_MERGE_CONFLICT", {"conflict"}, FALSE),
                        0, {}, 0))
        ELSE IF ~syncBidirectional_hasLocalChanges(statusAfterPull)
        THEN end(r3, NoError, 0, {}, 0)
        ELSE IF errors # {} /\ ~o.skipInvalidFiles
        THEN end(r3, PlainError({"mdx validation failed"}), 0, {}, 0)
        ELSE IF errors # {} /\ newStatus = {} THEN end(r3, NoError, 0, {}, 0)
        ELSE IF GitSyncManager_hasPlaceholderFiles(r3, toCommit)
        THEN end(r3, NoError, 0, {}, 0)
        ELSE IF fault = "commit" THEN Failed(end(r3, PlainError({}), 0, {}, 0))
        ELSE IF fault = "push"
        THEN Failed(end(Git_commit(r3), PlainError({"connection refused"}), 1,
                        toCommit, 1))
        ELSE IF r3.behind
        THEN end(Git_commit(r3), PlainError({"non-fast-forward"}), 1, toCommit, 1)
        ELSE end(Git_push(Git_commit(r3)), NoError, 1, toCommit, 1)

VARIABLES
    repo,           \* the working copy and its remote
    syncOptions,    \* validateBeforeCommit (with its validator), skipInvalidFiles
    sPc,            \* "idle" | "sleeping": push between two attempts
    sAttempt,       \* executeWithRetry's attempt of the push under way
    run             \* what the latest call of push / syncBidirectional did,
                    \* kept until a file or the remote changes

syncVars == <<repo, syncOptions, sPc, sAttempt, run>>

NoRun ==
    [op |-> "none", done |-> TRUE, error |-> NoError, commits |-> 0,
     committedReported |-> FALSE, pushCalls |-> 0, reported |-> {},
     refsDiffered |-> FALSE, pullFailed |-> FALSE, pullArgs |-> {},
     merged |-> FALSE, sentinelTracked |-> FALSE, faulty |-> FALSE,
     repeated |-> FALSE, afterSuccess |-> FALSE]

CleanRepo ==
    [changed |-> {}, sentinel |-> {}, invalid |-> {}, ahead |-> FALSE,
     behind |-> FALSE, stashed |-> FALSE]

SyncIdle ==
    /\ repo = CleanRepo
    /\ syncOptions = [validate |-> FALSE, skipInvalidFiles |-> FALSE]
    /\ sPc = "idle"
    /\ sAttempt = 0
    /\ run = NoRun

\* A tracked Markdown file holds the marker: looked up in the working copy
\* itself, not through the program's own checks.
SentinelTracked(r) == \E f \in Files : f.ext \in {"md", "mdx"} /\ f \in r.sentinel

\* The record of a call after one execution x of its body.
Run(op, base, x, done) ==
    [op |-> op, done |-> done, error |-> x.error,
     commits |-> base.commits + x.commits,
     committedReported |-> base.committedReported \/ x.committedReported,
     pushCalls |-> base.pushCalls + x.pushCalls,
     reported |-> base.reported \cup x.reported,
     refsDiffered |-> x.refsDiffered, pullFailed |-> x.pullFailed,
     pullArgs |-> x.pullArgs, merged |-> x.merged,
     sentinelTracked |-> base.sentinelTracked /\ SentinelTracked(repo),
     faulty |-> base.faulty \/ x.failed,
     repeated |-> base.repeated, afterSuccess |-> base.afterSuccess]

\* The record a call of op starts from. repeated: the call before it was of
\* the same operation and nothing changed since it ended; afterSuccess: that
\* call ended without error.
FreshRun(op) ==
    [NoRun EXCEPT !.sentinelTracked = TRUE,
                  !.repeated = run.op = op,
                  !.afterSuccess = run.error = NoError]

\* One attempt of executeWithRetry over push's operation (lines 350-433).
push_attempt(base, attempt, fault) ==
    LET x == push_body(repo, syncOptions, fault)
        e == IF x.error = NoError THEN NoError ELSE ErrorHandler_handle(x.error)
        again == x.error # NoError
                 /\ RetryManager_retries(e, attempt, ManagerRetryOptions.maxRetries)
    IN  /\ repo' = x.repo
        /\ run' = [Run("push", base, x, ~again) EXCEPT !.error = e]
        /\ sPc' = IF again THEN "sleeping" ELSE "idle"
        /\ sAttempt' = IF again THEN attempt + 1 ELSE 0
        /\ UNCHANGED syncOptions

\* push() is called (lines 345-435): the first attempt.
GitSyncManager_push(fault) ==
    /\ sPc = "idle"
    /\ push_attempt(FreshRun("push"), 0, fault)

\* The back-off of executeWithRetry is over: the next attempt.
push_retry(fault) ==
    /\ sPc = "sleeping"
    /\ push_attempt(run, sAttempt, fault)

\* syncBidirectional() is called (lines 437-642).
GitSyncManager_syncBidirectional(fault) ==
    /\ sPc = "idle"
    /\ LET x == syncBidirectional_body(repo, syncOptions, conflictResolution, fault)
       IN  /\ repo' = x.repo
           /\ run' = Run("sync", FreshRun("sync"), x, TRUE)
    /\ UNCHANGED <<syncOptions, sPc, sAttempt>>

\* A file of the content tree is edited.
Developer_edits(f) ==
    /\ sPc = "idle"
    /\ f \notin repo.changed
    /\ repo' = [repo EXCEPT !.changed = @ \cup {f}]
    /\ run' = NoRun
    /\ UNCHANGED <<syncOptions, sPc, sAttempt>>

\* Somebody else pushes to the remote branch.
Remote_advances ==
    /\ sPc = "idle"
    /\ ~repo.behind
    /\ repo' = [repo EXCEPT !.behind = TRUE]
    /\ run' = NoRun
    /\ UNCHANGED <<syncOptions, sPc, sAttempt>>

\* PlaceholderGenerator.restoreOriginals(): the originals are written back.
Placeholder_restoreOriginals ==
    /\ sPc = "idle"
    /\ repo.sentinel # {}
    /\ repo' = [repo EXCEPT !.sentinel = {}, !.changed = @ \cup repo.sentinel]
    /\ run' = NoRun
    /\ UNCHANGED <<syncOptions, sPc, sAttempt>>

(***************************************************************************)
(* git-sync-manager.ts: disable, startScheduler, startWebhookServer and    *)
(* the callers of performSync                                              *)
(***************************************************************************)
\* How many performSync calls are accepted before the engine is disabled.
MaxLifecycleCalls == 2

VARIABLES
    cronJob,        \* this.cronJob is set: the cron task is scheduled
    webhookServer,  \* this.webhookServer is set: the listener is started
    disabledCalls,  \* the methods called since disable() was
    lastExecution   \* the latest end of a sync operation: its queue, whether
                    \* the breaker and the Git body let it succeed

lifecycleVars == <<cronJob, webhookServer, disabledCalls, lastExecution>>

NoExecution == [q |-> "none", ok |-> FALSE, n |-> 0]

LifecycleIdle ==
    /\ cronJob = FALSE
    /\ webhookServer = FALSE
    /\ disabledCalls = {}
    /\ lastExecution = NoExecution

\* The method is noted when it is called on a disabled engine.
Lifecycle_called(name) ==
    disabledCalls' = IF isDisabled THEN disabledCalls \cup {name} ELSE disabledCalls

\* A startScheduler that does not look at isDisabled.
startScheduler_unguarded ==
    /\ Manager_settled
    /\ cronJob' = TRUE
    /\ Lifecycle_called("startScheduler")
    /\ UNCHANGED <<webhookServer, lastExecution>>

\* startScheduler() (lines 644-663)
GitSyncManager_startScheduler ==
    /\ Manager_settled
    /\ cronJob' = IF isDisabled THEN cronJob ELSE TRUE
    /\ Lifecycle_called("startScheduler")
    /\ UNCHANGED <<webhookServer, lastExecution>>

\* startWebhookServer() (lines 665-708), options.enableWebhook being set as
\* it is wherever the plug-in calls it.
GitSyncManager_startWebhookServer ==
    /\ Manager_settled
    /\ webhookServer' = IF isDisabled THEN webhookServer ELSE TRUE
    /\ Lifecycle_called("startWebhookServer")
    /\ UNCHANGED <<cronJob, lastExecution>>

\* performSync is called: by the plug-in, by the file watcher (debounced), by
\* the cron task or by the webhook listener's onWebhook.
Lifecycle_performSync(priority, debounced) ==
    /\ isDisabled \/ nextUid <= MaxLifecycleCalls
    /\ GitSyncManager_performSync(priority, debounced)
    /\ Lifecycle_called("performSync")
    /\ UNCHANGED <<cronJob, webhookServer, lastExecution>>

\* The cron task fires: `await this.performSync()` (lines 656-658).
Cron_fires == cronJob /\ Lifecycle_performSync(0, FALSE)

\* The listener hands over a webhook: onWebhook calls performSync (line 698).
Webhook_onWebhook == webhookServer /\ Lifecycle_performSync(0, FALSE)

\* The end of a sync operation of queue q is noted.
Lifecycle_executed(q, ok) ==
    /\ lastExecution' = [q |-> q, ok |-> ok, n |-> 1 - lastExecution.n]
    /\ UNCHANGED <<cronJob, webhookServer, disabledCalls>>

(***************************************************************************)
(* index.ts: loadContent                                                   *)
(***************************************************************************)
\* How many times Docusaurus calls loadContent in a behaviour.
MaxLoads == 2

\* new Error(`Operation with ID ${id} already in queue`) (sync-queue.ts line 41)
DuplicateIdError == PlainError({"already in queue"})

\* What initialize or the initial performSync is let to fail with: the errors
\* of the specifications above, typed errors whose message names the
\* authentication failure, the breaker's and the queue's own errors.
LoadErrors ==
    ThrownErrors \cup
    { GitSyncError("GIT_PULL_FAILED", {"authentication failed"}, TRUE),
      GitSyncError("UNKNOWN_ERROR", {"invalid username or password"}, TRUE),
      CircuitOpenError, DuplicateIdError }

\* customFields['git-sync-initial'] !== false, validateBeforeCompile === true
LoadOptions == [initialSync : BOOLEAN, validator : BOOLEAN]

VARIABLES
    loadOptions,   \* the two options loadContent reads
    loadPc,        \* "idle" | "initialize" | "sync" | "validate" | "returned" | "thrown"
    loadError,     \* the error the catch block received, NoError when none
    loadResult,    \* what loadContent returned: "null", "none" while it has not
    disableCount,  \* how many times disable() was called
    loads          \* how many times loadContent was called

loadVars == <<loadOptions, loadPc, loadError, loadResult, disableCount, loads>>

LoadIdle ==
    /\ loadOptions = [initialSync |-> TRUE, validator |-> FALSE]
    /\ loadPc = "idle" /\ loadError = NoError /\ loadResult = "none"
    /\ disableCount = 0 /\ loads = 0

\* The test of the catch block (lines 98-100) that looks at the code alone.
isAuthenticationFailure_codeOnly(error) == error.code = "AUTHENTICATION_FAILED"

\* The test of the catch block (lines 98-100)
loadContent_isAuthenticationFailure(error) ==
    \/ error.code = "AUTHENTICATION_FAILED"
    \/ includes(error.marks, "authentication")
    \/ includes(error.marks, "invalid username or password")

\* Lines 111-124 begin: with a validator the files are validated first.
loadContent_afterTry ==
    IF loadOptions.validator
    THEN loadPc' = "validate" /\ loadResult' = "none"
    ELSE loadPc' = "returned" /\ loadResult' = "null"

\* The catch block of loadContent (lines 96-109) for error.
loadContent_catch(error) ==
    /\ loadError' = error
    /\ IF loadContent_isAuthenticationFailure(error)
       THEN /\ isDisabled' = TRUE
            /\ disableCount' = disableCount + 1
            /\ loadContent_afterTry
       ELSE /\ loadPc' = "thrown" /\ loadResult' = "none"
            /\ UNCHANGED <<isDisabled, disableCount>>

\* loadContent is called (line 84): initialize() is awaited.
Plugin_loadContent ==
    /\ loadPc \in {"idle", "returned", "thrown"}
    /\ loads < MaxLoads
    /\ loads' = loads + 1
    /\ loadPc' = "initialize" /\ loadError' = NoError /\ loadResult' = "none"
    /\ UNCHANGED <<loadOptions, disableCount, isDisabled>>

\* initialize() returns (git-sync-manager.ts lines 107-185): the initial
\* performSync(0, false, 'pull') is awaited, or skipped (index.ts lines 92-95).
loadContent_initializeReturns ==
    /\ loadPc = "initialize"
    /\ IF loadOptions.initialSync
       THEN loadPc' = "sync" /\ loadResult' = "none"
       ELSE loadContent_afterTry
    /\ UNCHANGED <<loadOptions, loadError, disableCount, loads, isDisabled>>

\* initialize() fails with error at stage "setup" or "fetch": it throws
\* ErrorHandler.handle(error), but goes on when the fetch failed with a network
\* error (git-sync-manager.ts lines 170-184).
loadContent_initializeFails(stage, error) ==
    /\ loadPc = "initialize"
    /\ ~(stage = "fetch" /\ ErrorHandler_handle(error).code = "NETWORK_ERROR")
    /\ loadContent_catch(ErrorHandler_handle(error))
    /\ UNCHANGED <<loadOptions, loads>>

\* The promise of the initial performSync resolves; on a disabled engine
\* performSync returns at once (git-sync-manager.ts lines 193-198).
loadContent_syncResolves ==
    /\ loadPc = "sync"
    /\ loadContent_afterTry
    /\ UNCHANGED <<loadOptions, loadError, disableCount, loads, isDisabled>>

\* The promise of the initial performSync is rejected: with what the sync
\* operation threw, ErrorHandler.handle(error) (git-sync-manager.ts lines
\* 232-243), or with the queue's duplicate-id error as it is.
loadContent_syncRejects(error) ==
    /\ loadPc = "sync"
    /\ ~isDisabled
    /\ loadContent_catch(IF error = DuplicateIdError THEN error
                         ELSE ErrorHandler_handle(error))
    /\ UNCHANGED <<loadOptions, loads>>

\* The validation of lines 112-121 is over: loadContent returns null.
loadContent_validated ==
    /\ loadPc = "validate"
    /\ loadPc' = "returned" /\ loadResult' = "null"
    /\ UNCHANGED <<loadOptions, loadError, disableCount, loads, isDisabled>>

vars == <<retryVars, pullVars, now, circuitBreaker, callerVars, queueVars, debounceVars, managerVars, webhookQueueVars, serverVars, syncVars, lifecycleVars, loadVars>>

(***************************************************************************)
(* RetryManager alone, its operation an arbitrary one.                     *)
(***************************************************************************)
\* Everything but the RetryManager, as constructed and left alone.
RestOfRetry == <<pullVars, now, circuitBreaker, callerVars, queueVars, debounceVars, managerVars, webhookQueueVars, serverVars, syncVars, lifecycleVars, loadVars>>

InitRetry ==
    /\ RetryIdle /\ PullIdle /\ conflictResolution = "ours"
    /\ now = 0 /\ BreakerIdle /\ CallersIdle /\ QueuesIdle /\ DebounceIdle /\ ManagerIdle /\ WebhookQueueIdle /\ ServerIdle /\ wsOptions = [secret |-> "", filterOptions |-> FilterOptions(FALSE, {}, {}, {}), queueEnabled |-> FALSE] /\ SyncIdle /\ LifecycleIdle /\ LoadIdle

NextRetry ==
    \/ \E n \in 0..MaxRetriesBound :
          /\ RetryManager_executeWithRetry([DEFAULT_RETRY_OPTIONS EXCEPT !.maxRetries = n])
          /\ UNCHANGED RestOfRetry
    \/ RetryManager_attemptReturns /\ UNCHANGED RestOfRetry
    \/ \E e \in ThrownErrors : RetryManager_attemptThrows(e) /\ UNCHANGED RestOfRetry
    \/ RetryManager_sleepDone /\ UNCHANGED RestOfRetry

SpecRetry == InitRetry /\ [][NextRetry]_vars

\* What claim C8 calls retryable, spelled out.
C8_retryable(e) ==
    e.isRecoverable /\ e.code \in {"NETWORK_ERROR", "GIT_PULL_FAILED", "GIT_PUSH_FAILED"}

\* C8: executeWithRetry invokes the operation exactly once when its first
\* failure is not retryable, and exactly maxRetries + 1 times when every
\* attempt fails with a retryable error; it then raises the last classified
\* error.  Retryable means: recoverable, and a network, pull-failed or
\* push-failed error.
C8_RetryInvocations ==
    rPc = "thrown" =>
        LET n == Len(rFailures)
        IN  /\ n >= 1
            /\ rInvocations = n
            /\ rThrown = rFailures[n]
            /\ (~C8_retryable(rFailures[1]) => rInvocations = 1)
            /\ ((\A i \in 1..n : C8_retryable(rFailures[i]))
                    => rInvocations = rOptions.maxRetries + 1)

\* A call given maxRetries >= 2 has failed with retryable errors only.
C8_Witness ==
    /\ rPc = "thrown"
    /\ rOptions.maxRetries >= 2
    /\ rInvocations = rOptions.maxRetries + 1
    /\ \A i \in 1..Len(rFailures) : C8_retryable(rFailures[i])

(***************************************************************************)
(* GitSyncManager.pull, called directly.                                   *)
(***************************************************************************)
RestOfPull == <<now, circuitBreaker, callerVars, queueVars, debounceVars, managerVars, webhookQueueVars, serverVars, syncVars, lifecycleVars, loadVars>>

InitPull ==
    /\ RetryIdle /\ PullIdle /\ conflictResolution \in ConflictResolutions
    /\ now = 0 /\ BreakerIdle /\ CallersIdle /\ QueuesIdle /\ DebounceIdle /\ ManagerIdle /\ WebhookQueueIdle /\ ServerIdle /\ wsOptions = [secret |-> "", filterOptions |-> FilterOptions(FALSE, {}, {}, {}), queueEnabled |-> FALSE] /\ SyncIdle /\ LifecycleIdle /\ LoadIdle

NextPull ==
    \/ GitSyncManager_pull /\ UNCHANGED RestOfPull
    \/ pull_retry /\ UNCHANGED RestOfPull
    \/ \E b \in BOOLEAN : pull_statusDone(b) /\ UNCHANGED RestOfPull
    \/ \E e \in PlainErrors : pull_statusThrows(e) /\ UNCHANGED RestOfPull
    \/ pull_stashPushDone /\ UNCHANGED RestOfPull
    \/ \E e \in PlainErrors : pull_stashPushThrows(e) /\ UNCHANGED RestOfPull
    \/ pull_pullDone /\ UNCHANGED RestOfPull
    \/ \E e \in PlainErrors : pull_pullThrows(e) /\ UNCHANGED RestOfPull
    \/ pull_popDone /\ UNCHANGED RestOfPull
    \/ \E e \in PopErrors : pull_popThrows(e) /\ UNCHANGED RestOfPull
    \/ pull_catchPopDone /\ UNCHANGED RestOfPull

SpecPull == InitPull /\ [][NextPull]_vars

\* C9: in every execution of the body of pull that gets as far as git pull
\* (status and, with local changes, stash push succeeded): with no local
\* changes neither stash push nor stash pop is called; with local changes
\* exactly one stash push and exactly one stash pop are called, however git
\* pull and the pop end.
C9_StashPairing ==
    (pPc = "ended" /\ pPullOutcome # None) =>
        IF pHasLocal THEN pStashPush = 1 /\ pStashPop = 1
                     ELSE pStashPush = 0 /\ pStashPop = 0

(***************************************************************************)
(* CircuitBreaker, called by the sync operations of the two queues.        *)
(***************************************************************************)
RestOfBreaker == <<retryVars, pullVars, queueVars, debounceVars, managerVars, webhookQueueVars, serverVars, syncVars, lifecycleVars, loadVars>>

InitBreaker ==
    /\ RetryIdle /\ PullIdle /\ conflictResolution = "ours"
    /\ now = 0 /\ BreakerIdle /\ CallersIdle /\ QueuesIdle /\ DebounceIdle /\ ManagerIdle /\ WebhookQueueIdle /\ ServerIdle /\ wsOptions = [secret |-> "", filterOptions |-> FilterOptions(FALSE, {}, {}, {}), queueEnabled |-> FALSE] /\ SyncIdle /\ LifecycleIdle /\ LoadIdle

NextBreaker ==
    \/ Tick /\ UNCHANGED <<circuitBreaker, callerVars, RestOfBreaker>>
    \/ \E c \in Callers : CircuitBreaker_execute(c) /\ UNCHANGED RestOfBreaker
    \/ \E c \in Callers : CircuitBreaker_operationReturns(c) /\ UNCHANGED RestOfBreaker
    \/ \E c \in Callers : CircuitBreaker_operationThrows(c) /\ UNCHANGED RestOfBreaker

SpecBreaker == InitBreaker /\ [][NextBreaker]_vars

\* C6: starting from CLOSED, once failureThreshold execute calls in a row have
\* failed the breaker is OPEN, and every execute call made before resetTimeout
\* has passed since the last failure is rejected with the circuit-open error
\* without invoking its operation; a call made after fewer consecutive
\* failures has its operation invoked.
C6_OpenFailsFast ==
    /\ (gConsecutive >= failureThreshold /\ now - gLastFailure < resetTimeout)
          => circuitBreaker.state = "OPEN"
    /\ \A c \in Callers :
          cCall[c].state # "NONE" =>
             /\ (cCall[c].tripped /\ cCall[c].coolingDown)
                   => (~cCall[c].invoked /\ cPc[c] = "rejected")
             /\ ~cCall[c].tripped => cCall[c].invoked

\* A call made after failureThreshold failures in a row, within the cooldown.
C6_Witness ==
    \E c \in Callers :
        /\ cCall[c].tripped /\ cCall[c].coolingDown
        /\ cPc[c] = "rejected"
        /\ gConsecutive = failureThreshold

\* Caller c's step is an execute call, the return or the failure of its operation.
C7_calls(c) == cPc[c] # "running" /\ cCall'[c] # cCall[c]
C7_probeReturns(c) ==
    cPc[c] = "running" /\ cCall[c].state = "OPEN" /\ cPc'[c] = "returned"
C7_probeThrows(c) ==
    cPc[c] = "running" /\ cCall[c].state = "OPEN" /\ cPc'[c] = "threw"

\* C7: once the breaker is OPEN and resetTimeout has passed, one execute call
\* is let through (the HALF_OPEN probe); an execute call made while that probe
\* is in flight does not invoke its operation; when the probe succeeds the
\* breaker is CLOSED with failureCount 0, when it fails the breaker is OPEN
\* again and the cooldown starts anew.
C7_SingleProbe ==
    [][ \A c \in Callers :
          /\ (C7_calls(c) /\ cCall'[c].probeInFlight) => ~cCall'[c].invoked
          /\ C7_probeReturns(c) => (circuitBreaker'.state = "CLOSED" /\ circuitBreaker'.failureCount = 0)
          /\ C7_probeThrows(c) => (circuitBreaker'.state = "OPEN" /\ circuitBreaker'.lastFailureTime = now)
      ]_vars

(***************************************************************************)
(* A SyncQueue on its own, its operations arbitrary ones.                  *)
(***************************************************************************)
RestOfQueue == <<retryVars, pullVars, now, circuitBreaker, callerVars, debounceVars, managerVars, webhookQueueVars, serverVars, syncVars, lifecycleVars, loadVars>>

InitQueue ==
    /\ RetryIdle /\ PullIdle /\ conflictResolution = "ours"
    /\ now = 0 /\ BreakerIdle /\ CallersIdle /\ QueuesIdle /\ DebounceIdle /\ ManagerIdle /\ WebhookQueueIdle /\ ServerIdle /\ wsOptions = [secret |-> "", filterOptions |-> FilterOptions(FALSE, {}, {}, {}), queueEnabled |-> FALSE] /\ SyncIdle /\ LifecycleIdle /\ LoadIdle

\* What an operation of the queue throws: something transient, or a spawn fault.
QueueErrors == {PlainError({}), PlainError({"spawn eio"})}

NextQueue ==
    \/ \E p \in Priorities, id \in GivenIds \cup {NoId} :
          Caller_enqueue("syncQueue", p, id) /\ UNCHANGED RestOfQueue
    \/ SyncQueue_operationDone("syncQueue", NoError) /\ UNCHANGED RestOfQueue
    \/ \E e \in QueueErrors :
          SyncQueue_operationDone("syncQueue", e) /\ UNCHANGED RestOfQueue
    \/ SyncQueue_sleepDone("syncQueue") /\ UNCHANGED RestOfQueue
    \/ SyncQueue_clear("syncQueue") /\ UNCHANGED RestOfQueue
    \/ \E id \in GivenIds : SyncQueue_remove("syncQueue", id) /\ UNCHANGED RestOfQueue

SpecQueue == InitQueue /\ [][NextQueue]_vars

\* The operation process() has just invoked on the queue, if the step invoked one.
C3_started(u) == execCount'[u] > execCount[u]

\* C3: whenever the drain loop invokes an operation, no operation then waiting
\* in the queue has a higher priority, and none of equal priority was submitted
\* earlier (call numbers follow submission order); arrivals during an execution
\* or a back-off included.
C3_PriorityOrder ==
    [][ \A u \in Uids :
          (C3_started(u) /\ current'["syncQueue"].op = u) =>
             \A i \in 1..Len(queue'["syncQueue"]) :
                LET w == queue'["syncQueue"][i]
                IN  \/ w.priority < current'["syncQueue"].priority
                    \/ (w.priority = current'["syncQueue"].priority /\ w.op > u) ]_vars

\* C4: a settled promise of an accepted enqueue was settled by the terminal
\* outcome of the operation that same call submitted (settling removes the
\* listeners, so it is settled once).
C4_SettledByOwnOperation ==
    \A u \in Uids :
        calls[u].state \in {"resolved", "rejected"} =>
            (calls[u].by = u /\ u \in terminated)

\* C5: an enqueue with an explicit id that an operation still waiting in the
\* queue has is rejected, leaves the queue as it was and its operation is never
\* invoked; with no such operation waiting the id is accepted, in particular
\* after the earlier holder of the id has terminally resolved.
C5_DuplicateRejected ==
    \A u \in Uids :
        (calls[u].state # "unused" /\ calls[u].given) =>
            /\ calls[u].dupWaiting =>
                  (calls[u].state = "duplicate" /\ calls[u].queueKept /\ execCount[u] = 0)
            /\ ~calls[u].dupWaiting => calls[u].state # "duplicate"

C5_Witness ==
    /\ \E u \in Uids :
          calls[u].given /\ calls[u].dupWaiting /\ calls[u].state = "duplicate"
    /\ \E v \in Uids :
          calls[v].given /\ ~calls[v].dupWaiting /\ calls[v].state = "resolved"

(***************************************************************************)
(* A DebouncedSyncQueue on its own, its operations arbitrary ones.         *)
(***************************************************************************)
RestOfDebounce == <<retryVars, pullVars, now, circuitBreaker, callerVars, managerVars, webhookQueueVars, serverVars, syncVars, lifecycleVars, loadVars>>

InitDebounce == InitQueue

NextDebounce ==
    \/ Caller_enqueueDebounced /\ UNCHANGED RestOfDebounce
    \/ DebouncedSyncQueue_timerFires("plain") /\ UNCHANGED RestOfDebounce
    \/ DebouncedSyncQueue_operationDone(NoError) /\ UNCHANGED RestOfDebounce
    \/ \E e \in QueueErrors :
          DebouncedSyncQueue_operationDone(e) /\ UNCHANGED RestOfDebounce
    \/ SyncQueue_sleepDone("debouncedQueue") /\ UNCHANGED <<RestOfDebounce, debounceVars>>

SpecDebounce == InitDebounce /\ [][NextDebounce]_vars

\* The 'debounced-sync' operations the queue holds, waiting or in flight.
C10_debouncedRuns ==
    {queue["debouncedQueue"][i].op : i \in 1..Len(queue["debouncedQueue"])}
        \cup (IF current["debouncedQueue"] = NoItem THEN {}
              ELSE {current["debouncedQueue"].op})

\* C10: the timer that ends a burst of enqueueDebounced calls submits the
\* operation of the burst's last call under the id 'debounced-sync' (it never
\* fires without submitting one), and the queue never holds two 'debounced-sync'
\* operations, waiting or in flight, at once.
C10_DebounceSubmitsOnce ==
    /\ \A u \in Uids : calls[u].state # "dropped"
    /\ Cardinality(C10_debouncedRuns) <= 1

(***************************************************************************)
(* The GitSyncManager with its two queues, its breaker, the clock and the  *)
(* manual commands.                                                        *)
(***************************************************************************)
RestOfManager == <<retryVars, pullVars, callerVars, webhookQueueVars, serverVars, syncVars, lifecycleVars, loadVars>>

Init == InitQueue

Next ==
    \/ \E p \in Priorities, debounced \in BOOLEAN :
          GitSyncManager_performSync(p, debounced) /\ UNCHANGED RestOfManager
    \/ GitSyncManager_debounceTimerFires /\ UNCHANGED RestOfManager
    \/ \E q \in Queues, e \in GitBodyErrors \cup {NoError} :
          GitSyncManager_gitBodyDone(q, e) /\ UNCHANGED RestOfManager
    \/ \E q \in Queues : GitSyncManager_breakerRejected(q) /\ UNCHANGED RestOfManager
    \/ \E q \in Queues : GitSyncManager_backoffDone(q) /\ UNCHANGED RestOfManager
    \/ GitSyncManager_disable /\ UNCHANGED RestOfManager
    \/ \E cmd \in {"pull", "push"} : Cli_command(cmd) /\ UNCHANGED RestOfManager
    \/ Cli_commandDone /\ UNCHANGED RestOfManager
    \/ Manager_tick /\ UNCHANGED RestOfManager

Spec == Init /\ [][Next]_vars

\* Who is executing the body of pull, push or syncBidirectional.
C1_gitRunning ==
    {q \in Queues : opPc[q] = "git"} \cup (IF cliPc = "idle" THEN {} ELSE {"cli"})

\* C1: at most one Git mutation sequence (the body of pull, push or
\* syncBidirectional) is executing at any moment.
C1_SingleGitSequence == Cardinality(C1_gitRunning) <= 1

\* C2: isSyncing is true exactly while a queued sync operation is executing.
C2_IsSyncingExact == isSyncing <=> (\E q \in Queues : opPc[q] # "none")

\* C11: a sync operation whose Git body failed with a spawn EIO fault has been
\* executed exactly once and its caller has been rejected (the queue does not
\* retry it).
C11_SpawnFaultNotRetried ==
    \A u \in spawnFaults :
        execCount[u] = 1 /\ calls[u].state = "rejected"

(***************************************************************************)
(* A WebhookServer with its WebhookQueue; onWebhook is an arbitrary        *)
(* processor.                                                              *)
(***************************************************************************)
RestOfWebhook ==
    <<retryVars, pullVars, circuitBreaker, callerVars, queueVars, debounceVars, managerVars,
      syncVars, lifecycleVars, loadVars>>

InitWebhook ==
    /\ RetryIdle /\ PullIdle /\ conflictResolution = "ours"
    /\ now = 0 /\ BreakerIdle /\ CallersIdle /\ QueuesIdle /\ DebounceIdle /\ ManagerIdle /\ SyncIdle /\ LifecycleIdle /\ LoadIdle
    /\ WebhookQueueIdle /\ ServerIdle
    /\ wsOptions \in ServerOptions

NextWebhook ==
    \/ \E req \in Requests : WebhookServer_request(req) /\ UNCHANGED RestOfWebhook
    \/ \E ok \in BOOLEAN : WebhookServer_testDone(ok) /\ UNCHANGED RestOfWebhook
    \/ WebhookServer_triggerFires /\ UNCHANGED RestOfWebhook
    \/ \E ok \in BOOLEAN : WebhookServer_triggerDone(ok) /\ UNCHANGED RestOfWebhook
    \/ WebhookQueue_intervalFires /\ UNCHANGED <<now, serverVars, RestOfWebhook>>
    \/ \E i \in 1..MaxRequests, ok \in BOOLEAN, cleans \in BOOLEAN :
          WebhookQueue_processorDone(i, ok, cleans)
             /\ UNCHANGED <<now, serverVars, RestOfWebhook>>
    \/ WebhookQueue_stop /\ UNCHANGED <<now, serverVars, RestOfWebhook>>
    \/ WebhookHourPasses /\ UNCHANGED RestOfWebhook

SpecWebhook == InitWebhook /\ [][NextWebhook]_vars

\* An answer to a POST with a JSON body to the ingest path of a server with a
\* secret.
C12_ingestAnswered ==
    /\ wsOptions.secret # ""
    /\ wsExchange.path = IngestPath /\ wsExchange.method = "POST"
    /\ wsExchange.status # 0
    /\ wsExchange.json

\* C12: with a non-empty secret, a POST to the ingest path with a JSON body
\* whose signature header equals the HMAC-SHA256 of the body is answered 200
\* (503 when the queue is full), and one whose signature is missing or differs from that HMAC is answered 401
\* and causes neither an enqueue nor a sync.
C12_SignatureGate ==
    C12_ingestAnswered =>
        /\ wsExchange.signature = "valid" => wsExchange.status \in {200, 503}
        /\ wsExchange.signature \in {"missing", "wrong"} =>
              /\ wsExchange.status = 401
              /\ ~wsExchange.enqueued
              /\ ~wsExchange.triggered


(***************************************************************************)
(* push and syncBidirectional over one working copy, called one after the  *)
(* other while files and the remote change.                                *)
(***************************************************************************)
\* Each conflict-resolution policy without validation, and each validation
\* setting under the policy ours.
SyncConfigurations ==
    { c \in ConflictResolutions \X SyncOptions : c[1] = "ours" \/ ~c[2].validate }

RestOfSync ==
    <<retryVars, now, circuitBreaker, callerVars, queueVars, debounceVars, managerVars,
      webhookQueueVars, serverVars, lifecycleVars, loadVars>>

InitSync ==
    /\ RetryIdle /\ PullIdle
    /\ now = 0 /\ BreakerIdle /\ CallersIdle /\ QueuesIdle /\ DebounceIdle /\ ManagerIdle /\ LifecycleIdle /\ LoadIdle
    /\ WebhookQueueIdle /\ ServerIdle
    /\ wsOptions = [secret |-> "", filterOptions |-> FilterOptions(FALSE, {}, {}, {}), queueEnabled |-> FALSE]
    /\ \E s \in SUBSET SentinelFiles, i \in SUBSET InvalidFiles :
          repo = [CleanRepo EXCEPT !.sentinel = s, !.invalid = i]
    /\ \E c \in SyncConfigurations : conflictResolution = c[1] /\ syncOptions = c[2]
    /\ sPc = "idle" /\ sAttempt = 0 /\ run = NoRun

NextSync ==
    \/ \E fault \in Faults :
          GitSyncManager_push(fault) /\ UNCHANGED <<RestOfSync, pullVars>>
    \/ \E fault \in Faults : push_retry(fault) /\ UNCHANGED <<RestOfSync, pullVars>>
    \/ \E fault \in Faults :
          GitSyncManager_syncBidirectional(fault) /\ UNCHANGED <<RestOfSync, pullVars>>
    \/ \E f \in Files : Developer_edits(f) /\ UNCHANGED <<RestOfSync, pullVars>>
    \/ Remote_advances /\ UNCHANGED <<RestOfSync, pullVars>>
    \/ Placeholder_restoreOriginals /\ UNCHANGED <<RestOfSync, pullVars>>

SpecSync == InitSync /\ [][NextSync]_vars

\* C13: a push or syncBidirectional call made while a tracked Markdown file
\* holds the placeholder marker, none of whose Git commands failed, ends
\* without an error, without a commit and without a git push.
C13_PlaceholderBlocksCommit ==
    (run.op \in {"push", "sync"} /\ run.done /\ run.sentinelTracked /\ ~run.faulty) =>
        /\ run.error = NoError
        /\ run.commits = 0
        /\ run.pushCalls = 0


\* C14: a syncBidirectional call that follows one which ended without error,
\* with no change of a file or of the remote in between, and none of whose
\* own Git commands fails, creates no commit (by git commit or by a merge),
\* calls no git push and ends without an error.
C14_SecondRunIdle ==
    (run.op = "sync" /\ run.repeated /\ run.afterSuccess /\ ~run.faulty) =>
        /\ run.commits = 0 /\ ~run.merged
        /\ run.pushCalls = 0
        /\ run.error = NoError

(***************************************************************************)
(* GitSyncManager from start-up to disable(): performSync and its callers, *)
(* the two queues, the breaker, the scheduler and the webhook listener.    *)
(***************************************************************************)
RestOfLifecycle ==
    <<retryVars, pullVars, callerVars, webhookQueueVars, serverVars, syncVars, loadVars>>

\* The breaker as new, and as four failed sync operations in a row leave it.
LifecycleBreakers ==
    { CircuitBreaker_new,
      [state |-> "CLOSED", failureCount |-> failureThreshold - 1, lastFailureTime |-> 0] }

InitLifecycle ==
    /\ RetryIdle /\ PullIdle /\ conflictResolution = "ours"
    /\ now = 0 /\ circuitBreaker \in LifecycleBreakers
    /\ CallersIdle /\ QueuesIdle /\ DebounceIdle /\ ManagerIdle /\ LoadIdle
    /\ WebhookQueueIdle /\ ServerIdle
    /\ wsOptions = [secret |-> "", filterOptions |-> FilterOptions(FALSE, {}, {}, {}), queueEnabled |-> FALSE]
    /\ SyncIdle /\ LifecycleIdle

\* What the Git body of a sync operation throws here.
LifecycleErrors == {PlainError({"connection refused"})}

NextLifecycle ==
    \/ \E p \in Priorities, debounced \in BOOLEAN :
          Lifecycle_performSync(p, debounced) /\ UNCHANGED RestOfLifecycle
    \/ Cron_fires /\ UNCHANGED RestOfLifecycle
    \/ Webhook_onWebhook /\ UNCHANGED RestOfLifecycle
    \/ /\ GitSyncManager_startScheduler
       /\ UNCHANGED <<now, circuitBreaker, queueVars, debounceVars, managerVars, RestOfLifecycle>>
    \/ /\ GitSyncManager_startWebhookServer
       /\ UNCHANGED <<now, circuitBreaker, queueVars, debounceVars, managerVars, RestOfLifecycle>>
    \/ GitSyncManager_debounceTimerFires /\ UNCHANGED <<lifecycleVars, RestOfLifecycle>>
    \/ \E q \in Queues, e \in LifecycleErrors \cup {NoError} :
          /\ GitSyncManager_gitBodyDone(q, e)
          /\ Lifecycle_executed(q, e = NoError)
          /\ UNCHANGED RestOfLifecycle
    \/ \E q \in Queues :
          /\ GitSyncManager_breakerRejected(q)
          /\ Lifecycle_executed(q, FALSE)
          /\ UNCHANGED RestOfLifecycle
    \/ \E q \in Queues :
          GitSyncManager_backoffDone(q) /\ UNCHANGED <<lifecycleVars, RestOfLifecycle>>
    \/ GitSyncManager_disable /\ UNCHANGED <<lifecycleVars, RestOfLifecycle>>

SpecLifecycle == InitLifecycle /\ [][NextLifecycle]_vars

\* C15: once disabled the engine stays disabled; from then on no step adds a
\* call to a queue, arms the debounce timer, schedules the cron task or starts
\* the listener, and a performSync, startScheduler or startWebhookServer call
\* changes nothing at all: no queue, no timer, no breaker, no sync state.
C15_DisabledCallsAreNoOps ==
    [][isDisabled =>
          /\ isDisabled'
          /\ nextUid' = nextUid
          /\ debounceTimer' \in {debounceTimer, NoTimer}
          /\ cronJob' = cronJob /\ webhookServer' = webhookServer
          /\ disabledCalls' # disabledCalls =>
                UNCHANGED <<now, circuitBreaker, queueVars, debounceVars, managerVars,
                            lastExecution>>]_vars

\* Each of the three methods has been called on the disabled engine.
C15_Witness ==
    /\ isDisabled
    /\ disabledCalls = {"performSync", "startScheduler", "startWebhookServer"}
    /\ \E q \in Queues : qPc[q] # "idle"

\* The queue of the sync operation that has just ended, and that operation.
C16_queue == lastExecution'.q
C16_operation == current[C16_queue].op

\* C16: when a sync operation ends, then if it succeeded lastSyncTime is set
\* to the time of the end and syncErrors is empty, and the queue sees a
\* success; if it failed syncErrors has grown by exactly one classified error,
\* lastSyncTime is what it was, and the queue sees a failure (it re-queues the
\* item with one more retry, or rejects its caller); either way isSyncing is
\* false, unless the queue has started its next operation at once.
C16_ExecutionOutcome ==
    [][lastExecution' # lastExecution =>
          /\ IF lastExecution'.ok
             THEN /\ lastSyncTime' = now /\ lastSyncTime' # NoTime
                  /\ syncErrors' = <<>>
                  /\ C16_operation \in terminated'
                  /\ \A u \in Uids : calls'[u] # calls[u] => calls'[u].state = "resolved"
             ELSE /\ Len(syncErrors') = Len(syncErrors) + 1
                  /\ SubSeq(syncErrors', 1, Len(syncErrors)) = syncErrors
                  /\ syncErrors'[Len(syncErrors')] \in ErrorCode
                  /\ lastSyncTime' = lastSyncTime
                  /\ \/ /\ qPc'[C16_queue] = "sleep"
                        /\ Head(queue'[C16_queue]).op = C16_operation
                        /\ Head(queue'[C16_queue]).retries = current[C16_queue].retries + 1
                     \/ /\ C16_operation \in terminated'
                        /\ \A u \in Uids :
                              calls'[u] # calls[u] => calls'[u].state = "rejected"
          /\ isSyncing' = FALSE \/ execCount' # execCount]_vars

\* A sync operation has failed and a later one has succeeded.
C16_Witness ==
    /\ lastExecution.ok
    /\ lastSyncTime # NoTime
    /\ \E u \in Uids : execCount[u] > 1


\* The step is the answer to a request that got as far as enqueue.
C17_enqueueCalled ==
    /\ wsRequests' # wsRequests /\ testCalls' = testCalls
    /\ wsExchange'.body \in {"Queued", "Service temporarily unavailable - queue full"}

\* C17: enqueue on a queue that holds maxQueueSize events stores nothing, and
\* the listener answers 503 with Retry-After and starts no processor call and
\* no timeout; otherwise the event is stored last with the next id and
\* retryCount 0, pending, or processing when the queue was idle and picked it
\* at once (an idle queue picks its first pending event, which may be an older
\* one), and the listener answers 200 with the id.
C17_EnqueueCapacity ==
    [][C17_enqueueCalled =>
          IF Len(wq) >= WebhookQueue_maxQueueSize
          THEN /\ UNCHANGED webhookQueueVars
               /\ wsExchange'.status = 503
               /\ "Retry-After" \in wsExchange'.headers
               /\ directTimers' = directTimers
               /\ ~wsExchange'.triggered
          ELSE /\ Len(wq') = Len(wq) + 1
               /\ \A k \in 1..Len(wq) :
                     \/ wq'[k] = wq[k]
                     \/ /\ ~wProcessing /\ wq[k].status = "pending"
                        /\ wq'[k] = [wq[k] EXCEPT !.status = "processing"]
               /\ wq'[Len(wq')].id = wNextId
               /\ wq'[Len(wq')].retries = 0
               /\ wq'[Len(wq')].status \in {"pending", "processing"}
               /\ wq'[Len(wq')].status = "processing" =>
                     ~wProcessing /\ processorCalls' = processorCalls + 1
               /\ wsExchange'.status = 200
               /\ "X-Queue-ID" \in wsExchange'.headers]_vars

\* The queue is full and the last request was turned away for it.
C17_Witness ==
    /\ Len(wq) = WebhookQueue_maxQueueSize
    /\ wsExchange.status = 503
    /\ webhookStats.queued = WebhookQueue_maxQueueSize

\* C18: the status of an event changes only from pending to processing, from
\* processing to completed or failed, or from processing back to pending, and
\* then with retryCount incremented by one and lastError set; retryCount
\* changes at no other change than a failure.
C18_StatusTransitions ==
    [][\A i \in 1..Len(wq), j \in 1..Len(wq') :
          wq[i].id = wq'[j].id /\ wq[i] # wq'[j] =>
             LET a == wq[i]
                 b == wq'[j]
             IN  /\ <<a.status, b.status>> \in
                       { <<"pending", "processing">>, <<"processing", "completed">>,
                         <<"processing", "failed">>, <<"processing", "pending">> }
                 /\ b.status = "pending" => b.retries = a.retries + 1 /\ b.error
                 /\ b.status \in {"processing", "completed"} =>
                       b.retries = a.retries /\ b.error = a.error
                 /\ b.timestamp = a.timestamp]_vars

\* An event is pending again after a failed processor call.
C18_Witness ==
    \E i \in 1..Len(wq) : wq[i].status = "pending" /\ wq[i].retries > 0

\* The step answers an ingest request that is authenticated (no secret is
\* configured, or the signature is the HMAC of the body) and whose branch the
\* configured allow-list does not hold.
C19_refused ==
    /\ wsRequests' # wsRequests /\ testCalls' = testCalls
    /\ wsExchange'.path = IngestPath /\ wsExchange'.method = "POST"
    /\ wsExchange'.json
    /\ wsOptions.secret = "" \/ wsExchange'.signature = "valid"
    /\ wsExchange'.branchRefused

\* C19: such a request is answered 200 'Filtered', the filtered counter goes up
\* by one, nothing is enqueued and no sync is scheduled.
C19_BranchFiltered ==
    [][C19_refused =>
          /\ wsExchange'.status = 200 /\ wsExchange'.body = "Filtered"
          /\ webhookStats'.filtered = webhookStats.filtered + 1
          /\ UNCHANGED <<webhookQueueVars, directTimers, directCalls, testCalls>>]_vars

\* A signed event for a branch off the list has been filtered.
C19_Witness ==
    /\ wsOptions.secret # "" /\ wsExchange.signature = "valid"
    /\ wsExchange.branchRefused
    /\ wsExchange.body = "Filtered"
    /\ webhookStats.filtered > 0

\* The method a fixed path is served under.
C20_designated(path) == IF path \in {HealthPath, StatusPath} THEN "GET" ELSE "POST"

\* C20: a request other than a preflight (OPTIONS) one is answered 404 off the
\* four fixed paths and 405 under another method than the path's own; a POST
\* to the ingest path is answered 400 when its body is not JSON, 401 when a
\* secret is configured and its signature is missing or is not the HMAC of the
\* body, and 200 'Filtered' when its branch is off the allow-list.
C20_Routing ==
    (wsExchange.status # 0 /\ wsExchange.method # "OPTIONS") =>
        LET x == wsExchange
            fixed == x.path \in {IngestPath, HealthPath, StatusPath, TestPath}
            ingest == x.path = IngestPath /\ x.method = "POST"
        IN  /\ ~fixed => x.status = 404
            /\ fixed /\ x.method # C20_designated(x.path) => x.status = 405
            /\ ingest /\ ~x.json => x.status = 400
            /\ ingest /\ x.json /\ wsOptions.secret # ""
                 /\ x.signature \in {"missing", "wrong"} => x.status = 401
            /\ ingest /\ x.json /\ x.status = 200 /\ x.branchRefused =>
                  x.body = "Filtered"


(***************************************************************************)
(* loadContent: initialize and the initial sync fail or succeed.           *)
(***************************************************************************)
\* Everything but isDisabled, which the catch block of loadContent sets.
RestOfLoad ==
    <<retryVars, pullVars, now, circuitBreaker, callerVars, queueVars, debounceVars,
      isSyncing, lastSyncTime, syncErrors, opPc, cliPc, spawnFaults,
      webhookQueueVars, serverVars, syncVars, lifecycleVars>>

InitLoad ==
    /\ RetryIdle /\ PullIdle /\ conflictResolution = "ours"
    /\ now = 0 /\ BreakerIdle /\ CallersIdle /\ QueuesIdle /\ DebounceIdle /\ ManagerIdle
    /\ WebhookQueueIdle /\ ServerIdle
    /\ wsOptions = [secret |-> "", filterOptions |-> FilterOptions(FALSE, {}, {}, {}),
                    queueEnabled |-> FALSE]
    /\ SyncIdle /\ LifecycleIdle
    /\ loadOptions \in LoadOptions
    /\ loadPc = "idle" /\ loadError = NoError /\ loadResult = "none"
    /\ disableCount = 0 /\ loads = 0

NextLoad ==
    \/ Plugin_loadContent /\ UNCHANGED RestOfLoad
    \/ loadContent_initializeReturns /\ UNCHANGED RestOfLoad
    \/ \E stage \in {"setup", "fetch"}, error \in LoadErrors :
          loadContent_initializeFails(stage, error) /\ UNCHANGED RestOfLoad
    \/ loadContent_syncResolves /\ UNCHANGED RestOfLoad
    \/ \E error \in LoadErrors : loadContent_syncRejects(error) /\ UNCHANGED RestOfLoad
    \/ loadContent_validated /\ UNCHANGED RestOfLoad

SpecLoad == InitLoad /\ [][NextLoad]_vars

\* The failure is an authentication failure: by its code or by its message.
C21_authenticationFailure(error) ==
    \/ error.code = "AUTHENTICATION_FAILED"
    \/ \E m \in error.marks : m \in {"authentication failed", "invalid username or password"}

C22_UniqueQueuedIds ==
    \A i, j \in 1..Len(queue["syncQueue"]) :
        LET a == queue["syncQueue"][i]
            b == queue["syncQueue"][j]
        IN  (i # j /\ a.id.kind = "given") => a.id # b.id


\* C23: an operation that failed with retries left goes back to the head of the
\* queue with its counter incremented, stays at the head through the back-off
\* pause while nothing is taken out of the queue, and is the operation invoked
\* when the pause is over; one that failed with no retry left is not put back
\* and the promise of its call is rejected by it.
C23_RetryGoesFirst ==
    [][LET q == "syncQueue"
       IN  /\ (qPc[q] = "awaitOp" /\ qPc'[q] = "sleep") =>
                 /\ queue'[q] # <<>>
                 /\ Head(queue'[q]) = [current[q] EXCEPT !.retries = @ + 1]
                 /\ current[q].retries + 1 < SyncQueue_maxRetries
           /\ (qPc[q] = "sleep" /\ qPc'[q] = "sleep"
                 /\ Len(queue'[q]) >= Len(queue[q]) /\ queue[q] # <<>>) =>
                 Head(queue'[q]) = Head(queue[q])
           /\ (qPc[q] = "sleep" /\ qPc'[q] = "awaitOp" /\ queue[q] # <<>>) =>
                 current'[q] = Head(queue[q])
           /\ \A u \in Uids :
                 (qPc[q] = "awaitOp" /\ current[q].op = u
                    /\ u \in terminated' \ terminated
                    /\ current[q].retries + 1 >= SyncQueue_maxRetries) =>
                    /\ \A i \in 1..Len(queue'[q]) : queue'[q][i].op # u
                    /\ calls'[u].state \in {"resolved", "rejected"}
                    /\ calls'[u].by = u]_vars


\* The codes of the failures that are classified non-recoverable.
C24_nonRecoverable == {"GIT_MERGE_CONFLICT", "AUTHENTICATION_FAILED", "CIRCUIT_BREAKER_OPEN"}

\* C24: a sync operation that fails with a non-recoverable failure is not put
\* back in the queue: it fails terminally with that execution.
C24_NonRecoverableNotRequeued ==
    [][\A q \in Queues :
          (/\ opPc[q] # "none" /\ current'[q] # current[q]
           /\ Len(syncErrors') = Len(syncErrors) + 1
           /\ syncErrors'[Len(syncErrors')] \in C24_nonRecoverable) =>
              /\ current[q].op \in terminated'
              /\ \A i \in 1..Len(queue'[q]) : queue'[q][i].op # current[q].op]_vars


(***************************************************************************)
(* SyncQueue with unique ids, operations that terminate without a spawn    *)
(* fault, and neither clear() nor remove().                                *)
(***************************************************************************)
QueueLive_enqueue ==
    \E p \in Priorities : Caller_enqueue("syncQueue", p, NoId) /\ UNCHANGED RestOfQueue

\* The operation in flight terminates: it returns, or throws a plain Error.
QueueLive_operationDone ==
    \E e \in {NoError, PlainError({})} :
        SyncQueue_operationDone("syncQueue", e) /\ UNCHANGED RestOfQueue

\* The timer of the back-off sleep fires.
QueueLive_sleepDone == SyncQueue_sleepDone("syncQueue") /\ UNCHANGED RestOfQueue

NextQueueLive == QueueLive_enqueue \/ QueueLive_operationDone \/ QueueLive_sleepDone

SpecQueueLive ==
    /\ InitQueue /\ [][NextQueueLive]_vars
    /\ WF_vars(QueueLive_operationDone) /\ WF_vars(QueueLive_sleepDone)

C26_DrainLoopActive ==
    queue["syncQueue"] # <<>> => processing["syncQueue"]

\* Two items wait while the loop sleeps before a retry.
C26_Witness ==
    /\ qPc["syncQueue"] = "sleep"
    /\ Len(queue["syncQueue"]) >= 2
    /\ queue["syncQueue"][1].retries > 0


\* C27: the timer of an enqueueDebounced call that no later call superseded
\* submits the operation of that call and the queue accepts it: the timer
\* never finds pendingOperation cleared and the submission is never refused
\* as a duplicate of an earlier debounced operation.
C27_DebouncedCallSubmitted ==
    \A u \in Uids :
        calls[u].q = "debouncedQueue" => calls[u].state \notin {"dropped", "duplicate"}

(***************************************************************************)
(* A DebouncedSyncQueue whose timers fire and whose operations terminate   *)
(* without a spawn fault.                                                  *)
(***************************************************************************)
DebounceLive_timerFires ==
    DebouncedSyncQueue_timerFires("plain") /\ UNCHANGED RestOfDebounce

DebounceLive_operationDone ==
    \E e \in {NoError, PlainError({})} :
        DebouncedSyncQueue_operationDone(e) /\ UNCHANGED RestOfDebounce

DebounceLive_sleepDone ==
    SyncQueue_sleepDone("debouncedQueue") /\ UNCHANGED <<RestOfDebounce, debounceVars>>

NextDebounceLive ==
    \/ Caller_enqueueDebounced /\ UNCHANGED RestOfDebounce
    \/ DebounceLive_timerFires
    \/ DebounceLive_operationDone
    \/ DebounceLive_sleepDone

SpecDebounceLive ==
    /\ InitDebounce /\ [][NextDebounceLive]_vars
    /\ WF_vars(DebounceLive_timerFires)
    /\ WF_vars(DebounceLive_operationDone)
    /\ WF_vars(DebounceLive_sleepDone)

\* C28: the promise of every enqueueDebounced call is eventually resolved or
\* rejected (a refusal as a duplicate is a rejection).
C28_DebouncedPromiseSettled ==
    \A u \in Uids :
        (calls[u].q = "debouncedQueue" /\ calls[u].state = "debouncing") ~>
            (calls[u].state \in {"resolved", "rejected", "duplicate"})


(***************************************************************************)
(* A burst of performSync(priority, false) calls on an enabled engine      *)
(* whose Git bodies all succeed.                                           *)
(***************************************************************************)
\* performSync(priority, false) with the engine enabled (git-sync-manager.ts
\* lines 192-255): the sync operation is enqueued as `sync-${Date.now()}`.
Burst_performSync(priority) ==
    /\ Manager_settled
    /\ ~isDisabled
    /\ nextUid <= MaxCalls
    /\ SyncQueue_enqueue("syncQueue", nextUid, priority, SyncId(now), "sync")
    /\ nextUid' = nextUid + 1
    /\ Manager_syncOperationStarts("syncQueue", circuitBreaker, isSyncing, opPc["syncQueue"])
    /\ UNCHANGED <<now, debounceVars, isDisabled, lastSyncTime, syncErrors, cliPc, spawnFaults>>

NextBurst ==
    \/ \E p \in Priorities : Burst_performSync(p) /\ UNCHANGED RestOfManager
    \/ GitSyncManager_gitBodyDone("syncQueue", NoError) /\ UNCHANGED RestOfManager
    \/ Manager_tick /\ UNCHANGED RestOfManager

SpecBurst == InitQueue /\ [][NextBurst]_vars

\* C29: no performSync(priority, false) call on an enabled engine is refused
\* by the queue as a duplicate.
C29_NoDuplicateRefusal ==
    \A u \in Uids : calls[u].q = "syncQueue" => calls[u].state # "duplicate"


\* C30: with validation before the commit and skipInvalidFiles set, the commit
\* of a run of push or syncBidirectional holds no file that the validator
\* reported invalid in that run.
C30_InvalidFilesNotCommitted ==
    (/\ run.op \in {"push", "sync"}
     /\ syncOptions.validate /\ syncOptions.skipInvalidFiles) =>
        ~run.committedReported


\* C31: after a run of syncBidirectional that ended without error, the remote
\* branch holds every commit of the local branch.
C31_RemoteHasLocalCommits ==
    (run.op = "sync" /\ run.done /\ run.error = NoError) => ~repo.ahead


\* C32: a run of syncBidirectional that ended without error and found the
\* local and remote refs different after the fetch had a successful git pull.
C32_PullFailureRaises ==
    (run.op = "sync" /\ run.done /\ run.error = NoError /\ run.refsDiffered)
        => ~run.pullFailed

\* C33: whenever syncBidirectional invokes git pull, its options are the ones
\* pull() builds for the configured conflictResolution policy.
C33_SamePullOptions ==
    (run.op = "sync" /\ run.refsDiffered)
        => run.pullArgs = pull_pullOptions(conflictResolution)


\* C34: an event whose processor call fails has retryCount incremented by one
\* and lastError set, and is pending again if retryCount is below maxRetries,
\* failed otherwise; so a failed event has had exactly maxRetries processor
\* calls (each one counted in retryCount), an event still pending or
\* processing fewer, and a failed event stays as it is.
C34_FailureCounting ==
    /\ [](\A i \in 1..Len(wq) :
            /\ wq[i].status = "failed" =>
                  wq[i].retries = WebhookQueue_maxRetries /\ wq[i].error
            /\ wq[i].status \in {"pending", "processing"} =>
                  wq[i].retries < WebhookQueue_maxRetries)
    /\ [][\A i \in 1..Len(wq), j \in 1..Len(wq') :
            wq[i].id = wq'[j].id =>
               /\ wq[i].status = "failed" => wq'[j] = wq[i]
               /\ wq[i].status = "processing" /\ wq'[j].status \in {"pending", "failed"} =>
                     /\ wq'[j].retries = wq[i].retries + 1
                     /\ wq'[j].error
                     /\ wq'[j].status = "pending" <=>
                           wq'[j].retries < WebhookQueue_maxRetries]_vars

\* An event has failed for good after maxRetries failed processor calls.
C34_Witness ==
    \E i \in 1..Len(wq) :
        wq[i].status = "failed" /\ wq[i].retries = WebhookQueue_maxRetries


(***************************************************************************)
(* The WebhookQueue on its own, for any maxQueueSize up to a bound, with    *)
(* nobody calling stop() from outside.  The interval of startProcessing     *)
(* fires while it is armed, and every processor call returns or throws.     *)
(***************************************************************************)
IngestMaxQueueSize == 2
MaxIngestEvents == 3

InitIngest ==
    /\ RetryIdle /\ PullIdle /\ conflictResolution = "ours"
    /\ now = 0 /\ BreakerIdle /\ CallersIdle /\ QueuesIdle /\ DebounceIdle /\ ManagerIdle /\ SyncIdle /\ LifecycleIdle /\ LoadIdle
    /\ ServerIdle
    /\ wsOptions = [secret |-> "", filterOptions |-> FilterOptions(FALSE, {}, {}, {}), queueEnabled |-> TRUE]
    /\ \E n \in 1..IngestMaxQueueSize : WebhookQueue_new(n)

\* enqueue(payload), called by whoever holds the queue.
Ingest_enqueue ==
    /\ wNextId <= MaxIngestEvents
    /\ WebhookQueue_enqueue
    /\ UNCHANGED <<now, serverVars, RestOfWebhook>>

Ingest_intervalFires ==
    WebhookQueue_intervalFires /\ UNCHANGED <<now, serverVars, RestOfWebhook>>

Ingest_processorDone(i) ==
    \E ok \in BOOLEAN, cleans \in BOOLEAN :
        WebhookQueue_processorDone(i, ok, cleans)
           /\ UNCHANGED <<now, serverVars, RestOfWebhook>>

NextIngest ==
    \/ Ingest_enqueue
    \/ Ingest_intervalFires
    \/ \E i \in 1..MaxIngestEvents : Ingest_processorDone(i)
    \/ WebhookHourPasses /\ UNCHANGED RestOfWebhook

SpecIngest ==
    /\ InitIngest /\ [][NextIngest]_vars
    /\ WF_vars(Ingest_intervalFires)
    /\ \A i \in 1..MaxIngestEvents : WF_vars(Ingest_processorDone(i))

\* The event with this id is in the queue, not yet completed or failed.
Ingest_unsettled(id) ==
    \E i \in 1..Len(wq) : wq[i].id = id /\ wq[i].status \in {"pending", "processing"}

\* C35: with no stop() from outside, the drain loop is stopped only when no
\* event is pending or processing (so an accepted enqueue finds it running or
\* starts it), and every accepted event eventually is completed or failed.
C35_EveryEventSettles ==
    /\ [](~wTimer \/ ~wProcessing =>
             \A id \in 1..MaxIngestEvents : ~Ingest_unsettled(id))
    /\ \A id \in 1..MaxIngestEvents :
          Ingest_unsettled(id) ~> ~Ingest_unsettled(id)

\* The loop has stopped itself after an enqueue restarted it: the second event
\* was accepted after the first one had settled.
C35_Witness ==
    /\ ~wTimer /\ wNextId = 3
    /\ \E i \in 1..Len(wq) : wq[i].id = 2 /\ wq[i].status \in {"completed", "failed"}
    /\ \E i \in 1..Len(wq) : wq[i].retries > 0

\* C36: at most one event has status processing.
C36_OneProcessing ==
    Cardinality({ i \in 1..Len(wq) : wq[i].status = "processing" }) <= 1


\* C37: enqueue returns null (the listener answers 503) only when at least
\* maxQueueSize events are pending or processing.
C37_RejectedOnlyWhenBusy ==
    [][C17_enqueueCalled /\ wsExchange'.status = 503 =>
          Cardinality({ i \in 1..Len(wq) : wq[i].status \in {"pending", "processing"} })
              >= WebhookQueue_maxQueueSize]_vars


\* The events of items that cleanup() removes.
C38_removed(items) ==
    { i \in 1..Len(items) :
        \A j \in 1..Len(WebhookQueue_cleanup(items)) :
            WebhookQueue_cleanup(items)[j].id # items[i].id }

\* C38 as stated: cleanup() removes only completed or failed events received
\* more than one hour ago.
C38_RemovesOlderThanOneHour ==
    \A i \in C38_removed(wq) :
        /\ wq[i].status \in {"completed", "failed"}
        /\ now - wq[i].timestamp > OneHourMs

\* C38: cleanup() removes exactly the completed or failed events received at
\* least one hour ago; pending and processing events stay whatever their age,
\* and every event that stays is the record it was, in the order it was.
C38_CleanupFrame ==
    LET out == WebhookQueue_cleanup(wq)
        kept == { i \in 1..Len(wq) : i \notin C38_removed(wq) }
    IN  /\ \A i \in 1..Len(wq) :
              i \in C38_removed(wq) <=>
                 /\ wq[i].status \in {"completed", "failed"}
                 /\ now - wq[i].timestamp >= OneHourMs
        /\ Len(out) = Cardinality(kept)
        /\ \A i \in kept :
              out[Cardinality({ k \in kept : k <= i })] = wq[i]

\* cleanup() has removed an accepted event while an event that was received
\* an hour ago is still pending or processing.
C38_Witness ==
    /\ Len(wq) < wNextId - 1
    /\ \E i \in 1..Len(wq) :
          wq[i].status \in {"pending", "processing"} /\ now - wq[i].timestamp >= OneHourMs


\* The promise of call u is unsettled and its item is neither waiting in the
\* queue nor in flight: the item was discarded by clear() or remove(id).
C39_discarded(u) ==
    /\ calls[u].q = "syncQueue" /\ calls[u].state = "pending"
    /\ current["syncQueue"].op # u
    /\ \A i \in 1..Len(queue["syncQueue"]) : queue["syncQueue"][i].op # u

\* The step is a clear() or a remove(id) that discards waiting items.
C39_discards ==
    /\ Len(queue'["syncQueue"]) < Len(queue["syncQueue"])
    /\ execCount' = execCount /\ calls' = calls /\ terminated' = terminated

\* C39: an item discarded by clear() or remove(id) is never executed and its
\* promise is never settled afterwards, and a clear() or remove(id) leaves the
\* item in flight and the drain loop as they are.
C39_DiscardedNeverSettled ==
    [][/\ \A u \in Uids :
             C39_discarded(u) =>
                /\ calls'[u] = calls[u]
                /\ execCount'[u] = execCount[u]
                /\ C39_discarded(u)'
       /\ C39_discards =>
             /\ current' = current /\ qPc' = qPc /\ processing' = processing]_vars


\* C40: in every reachable state of the breaker, with execute calls of the two
\* callers overlapping in any order: CLOSED implies failureCount below
\* failureThreshold; OPEN or HALF_OPEN implies failureCount at least
\* failureThreshold and lastFailureTime set.
C40_StateMatchesCount ==
    /\ circuitBreaker.state \in {"CLOSED", "OPEN", "HALF_OPEN"}
    /\ circuitBreaker.state = "CLOSED" =>
          circuitBreaker.failureCount < failureThreshold
    /\ circuitBreaker.state \in {"OPEN", "HALF_OPEN"} =>
          /\ circuitBreaker.failureCount >= failureThreshold
          /\ circuitBreaker.lastFailureTime # NoTime

\* The breaker is CLOSED with one failure counted: the probe let through from
\* OPEN failed after an overlapping call had succeeded and closed the breaker.
C40_Witness ==
    /\ circuitBreaker.state = "CLOSED" /\ circuitBreaker.failureCount = 1
    /\ \E c \in Callers : cPc[c] = "threw" /\ cCall[c].state = "OPEN"
    /\ \E c \in Callers : cPc[c] = "returned" /\ cCall[c].state = "HALF_OPEN"

====
